---- MODULE Spec2Model ----
\* TMDB File Renamer (src/rtvsm.py): season/episode detection, filename
\* rendering, preview maintenance and the batch mover of TMDBRenamer.
\*
\* A string is a sequence of one-character strings; a path is a sequence of
\* path components, each component a string.  None is -1 (season and episode
\* numbers are never negative).
EXTENDS Integers, Sequences, FiniteSets, TLC

VARIABLES
    selected_media_type,    \* "tv" | "movie"
    current_media_info,     \* [id, number_of_seasons], NoMedia for None
    season_combo_count,     \* season_combo.count()
    season_combo_current,   \* season_combo.currentData(), None when empty
    detect_all_seasons,     \* BOOLEAN
    episodes_info,          \* [series, season]: the dict of one season, NoEpisodes for {}
    all_seasons_info,       \* [series, upto]: the dicts of seasons 1..upto, NoSeasons for {}
    ep_fetcher,             \* request of the running SeasonEpisodesFetcher
    all_fetcher,            \* request of the running AllSeasonsFetcher
    signals,                \* finished signals posted and not yet delivered
    files_to_rename,        \* sequence of source paths
    new_filenames,          \* sequence of rendered names
    preview_nums,           \* (season_num, episode_num) of update_preview, per file
    rename_button,          \* rename_button.isEnabled()
    base_directory,         \* <<>> ("" in the code) or a directory path
    organize_seasons_checkbox, \* BOOLEAN
    config,                 \* [tv_format, movie_format, download_posters, organize_movies]
    fs_files,               \* filesystem: file path -> content
    fs_dirs,                \* filesystem: set of directory paths
    preview_tab,            \* preview_tabs.currentIndex()
    pc,                     \* where the GUI thread is: "idle" (the main event loop), in
                            \* rename_files ("loop" | "summary" | "aborted"), or in
                            \* the event loop of a dialog ("tab_box" | "finish_box" | "config");
                            \* "closed" after closeEvent, "crashed" after an exception
                            \* left a slot and PyQt5 aborted the process
    batch                   \* locals of rename_files while it runs, and its outcome

vars == <<selected_media_type, current_media_info, season_combo_count,
          season_combo_current, detect_all_seasons, episodes_info,
          all_seasons_info, ep_fetcher, all_fetcher, signals,
          files_to_rename, new_filenames, preview_nums, rename_button, base_directory,
          organize_seasons_checkbox, config, fs_files, fs_dirs, preview_tab,
          pc, batch>>

ui_vars == <<selected_media_type, current_media_info, season_combo_count,
             season_combo_current, detect_all_seasons, episodes_info,
             all_seasons_info, ep_fetcher, all_fetcher, signals, base_directory,
             organize_seasons_checkbox, config>>

None == -1

----------------------------------------------------------------------------
\* Strings

\* A character outside ASCII, or an ASCII control character without an escape,
\* is written by its code point: "U+0663" is the one character ARABIC-INDIC
\* DIGIT THREE, "U+001C" the one character FILE SEPARATOR.
\* The decimal digits of Unicode (category Nd), one tuple per script, each
\* from its ZERO to its NINE
DigitBlocks ==
    <<
       <<"0", "1", "2", "3", "4", "5", "6", "7", "8", "9">>,
       <<"U+0660", "U+0661", "U+0662", "U+0663", "U+0664",
         "U+0665", "U+0666", "U+0667", "U+0668", "U+0669">>,
       <<"U+06F0", "U+06F1", "U+06F2", "U+06F3", "U+06F4",
         "U+06F5", "U+06F6", "U+06F7", "U+06F8", "U+06F9">>,
       <<"U+07C0", "U+07C1", "U+07C2", "U+07C3", "U+07C4",
         "U+07C5", "U+07C6", "U+07C7", "U+07C8", "U+07C9">>,
       <<"U+0966", "U+0967", "U+0968", "U+0969", "U+096A",
         "U+096B", "U+096C", "U+096D", "U+096E", "U+096F">>,
       <<"U+09E6", "U+09E7", "U+09E8", "U+09E9", "U+09EA",
         "U+09EB", "U+09EC", "U+09ED", "U+09EE", "U+09EF">>,
       <<"U+0A66", "U+0A67", "U+0A68", "U+0A69", "U+0A6A",
         "U+0A6B", "U+0A6C", "U+0A6D", "U+0A6E", "U+0A6F">>,
       <<"U+0AE6", "U+0AE7", "U+0AE8", "U+0AE9", "U+0AEA",
         "U+0AEB", "U+0AEC", "U+0AED", "U+0AEE", "U+0AEF">>,
       <<"U+0B66", "U+0B67", "U+0B68", "U+0B69", "U+0B6A",
         "U+0B6B", "U+0B6C", "U+0B6D", "U+0B6E", "U+0B6F">>,
       <<"U+0BE6", "U+0BE7", "U+0BE8", "U+0BE9", "U+0BEA",
         "U+0BEB", "U+0BEC", "U+0BED", "U+0BEE", "U+0BEF">>,
       <<"U+0C66", "U+0C67", "U+0C68", "U+0C69", "U+0C6A",
         "U+0C6B", "U+0C6C", "U+0C6D", "U+0C6E", "U+0C6F">>,
       <<"U+0CE6", "U+0CE7", "U+0CE8", "U+0CE9", "U+0CEA",
         "U+0CEB", "U+0CEC", "U+0CED", "U+0CEE", "U+0CEF">>,
       <<"U+0D66", "U+0D67", "U+0D68", "U+0D69", "U+0D6A",
         "U+0D6B", "U+0D6C", "U+0D6D", "U+0D6E", "U+0D6F">>,
       <<"U+0DE6", "U+0DE7", "U+0DE8", "U+0DE9", "U+0DEA",
         "U+0DEB", "U+0DEC", "U+0DED", "U+0DEE", "U+0DEF">>,
       <<"U+0E50", "U+0E51", "U+0E52", "U+0E53", "U+0E54",
         "U+0E55", "U+0E56", "U+0E57", "U+0E58", "U+0E59">>,
       <<"U+0ED0", "U+0ED1", "U+0ED2", "U+0ED3", "U+0ED4",
         "U+0ED5", "U+0ED6", "U+0ED7", "U+0ED8", "U+0ED9">>,
       <<"U+0F20", "U+0F21", "U+0F22", "U+0F23", "U+0F24",
         "U+0F25", "U+0F26", "U+0F27", "U+0F28", "U+0F29">>,
       <<"U+1040", "U+1041", "U+1042", "U+1043", "U+1044",
         "U+1045", "U+1046", "U+1047", "U+1048", "U+1049">>,
       <<"U+1090", "U+1091", "U+1092", "U+1093", "U+1094",
         "U+1095", "U+1096", "U+1097", "U+1098", "U+1099">>,
       <<"U+17E0", "U+17E1", "U+17E2", "U+17E3", "U+17E4",
         "U+17E5", "U+17E6", "U+17E7", "U+17E8", "U+17E9">>,
       <<"U+1810", "U+1811", "U+1812", "U+1813", "U+1814",
         "U+1815", "U+1816", "U+1817", "U+1818", "U+1819">>,
       <<"U+1946", "U+1947", "U+1948", "U+1949", "U+194A",
         "U+194B", "U+194C", "U+194D", "U+194E", "U+194F">>,
       <<"U+19D0", "U+19D1", "U+19D2", "U+19D3", "U+19D4",
         "U+19D5", "U+19D6", "U+19D7", "U+19D8", "U+19D9">>,
       <<"U+1A80", "U+1A81", "U+1A82", "U+1A83", "U+1A84",
         "U+1A85", "U+1A86", "U+1A87", "U+1A88", "U+1A89">>,
       <<"U+1A90", "U+1A91", "U+1A92", "U+1A93", "U+1A94",
         "U+1A95", "U+1A96", "U+1A97", "U+1A98", "U+1A99">>,
       <<"U+1B50", "U+1B51", "U+1B52", "U+1B53", "U+1B54",
         "U+1B55", "U+1B56", "U+1B57", "U+1B58", "U+1B59">>,
       <<"U+1BB0", "U+1BB1", "U+1BB2", "U+1BB3", "U+1BB4",
         "U+1BB5", "U+1BB6", "U+1BB7", "U+1BB8", "U+1BB9">>,
       <<"U+1C40", "U+1C41", "U+1C42", "U+1C43", "U+1C44",
         "U+1C45", "U+1C46", "U+1C47", "U+1C48", "U+1C49">>,
       <<"U+1C50", "U+1C51", "U+1C52", "U+1C53", "U+1C54",
         "U+1C55", "U+1C56", "U+1C57", "U+1C58", "U+1C59">>,
       <<"U+A620", "U+A621", "U+A622", "U+A623", "U+A624",
         "U+A625", "U+A626", "U+A627", "U+A628", "U+A629">>,
       <<"U+A8D0", "U+A8D1", "U+A8D2", "U+A8D3", "U+A8D4",
         "U+A8D5", "U+A8D6", "U+A8D7", "U+A8D8", "U+A8D9">>,
       <<"U+A900", "U+A901", "U+A902", "U+A903", "U+A904",
         "U+A905", "U+A906", "U+A907", "U+A908", "U+A909">>,
       <<"U+A9D0", "U+A9D1", "U+A9D2", "U+A9D3", "U+A9D4",
         "U+A9D5", "U+A9D6", "U+A9D7", "U+A9D8", "U+A9D9">>,
       <<"U+A9F0", "U+A9F1", "U+A9F2", "U+A9F3", "U+A9F4",
         "U+A9F5", "U+A9F6", "U+A9F7", "U+A9F8", "U+A9F9">>,
       <<"U+AA50", "U+AA51", "U+AA52", "U+AA53", "U+AA54",
         "U+AA55", "U+AA56", "U+AA57", "U+AA58", "U+AA59">>,
       <<"U+ABF0", "U+ABF1", "U+ABF2", "U+ABF3", "U+ABF4",
         "U+ABF5", "U+ABF6", "U+ABF7", "U+ABF8", "U+ABF9">>,
       <<"U+FF10", "U+FF11", "U+FF12", "U+FF13", "U+FF14",
         "U+FF15", "U+FF16", "U+FF17", "U+FF18", "U+FF19">>,
       <<"U+104A0", "U+104A1", "U+104A2", "U+104A3", "U+104A4",
         "U+104A5", "U+104A6", "U+104A7", "U+104A8", "U+104A9">>,
       <<"U+10D30", "U+10D31", "U+10D32", "U+10D33", "U+10D34",
         "U+10D35", "U+10D36", "U+10D37", "U+10D38", "U+10D39">>,
       <<"U+11066", "U+11067", "U+11068", "U+11069", "U+1106A",
         "U+1106B", "U+1106C", "U+1106D", "U+1106E", "U+1106F">>,
       <<"U+110F0", "U+110F1", "U+110F2", "U+110F3", "U+110F4",
         "U+110F5", "U+110F6", "U+110F7", "U+110F8", "U+110F9">>,
       <<"U+11136", "U+11137", "U+11138", "U+11139", "U+1113A",
         "U+1113B", "U+1113C", "U+1113D", "U+1113E", "U+1113F">>,
       <<"U+111D0", "U+111D1", "U+111D2", "U+111D3", "U+111D4",
         "U+111D5", "U+111D6", "U+111D7", "U+111D8", "U+111D9">>,
       <<"U+112F0", "U+112F1", "U+112F2", "U+112F3", "U+112F4",
         "U+112F5", "U+112F6", "U+112F7", "U+112F8", "U+112F9">>,
       <<"U+11450", "U+11451", "U+11452", "U+11453", "U+11454",
         "U+11455", "U+11456", "U+11457", "U+11458", "U+11459">>,
       <<"U+114D0", "U+114D1", "U+114D2", "U+114D3", "U+114D4",
         "U+114D5", "U+114D6", "U+114D7", "U+114D8", "U+114D9">>,
       <<"U+11650", "U+11651", "U+11652", "U+11653", "U+11654",
         "U+11655", "U+11656", "U+11657", "U+11658", "U+11659">>,
       <<"U+116C0", "U+116C1", "U+116C2", "U+116C3", "U+116C4",
         "U+116C5", "U+116C6", "U+116C7", "U+116C8", "U+116C9">>,
       <<"U+11730", "U+11731", "U+11732", "U+11733", "U+11734",
         "U+11735", "U+11736", "U+11737", "U+11738", "U+11739">>,
       <<"U+118E0", "U+118E1", "U+118E2", "U+118E3", "U+118E4",
         "U+118E5", "U+118E6", "U+118E7", "U+118E8", "U+118E9">>,
       <<"U+11950", "U+11951", "U+11952", "U+11953", "U+11954",
         "U+11955", "U+11956", "U+11957", "U+11958", "U+11959">>,
       <<"U+11C50", "U+11C51", "U+11C52", "U+11C53", "U+11C54",
         "U+11C55", "U+11C56", "U+11C57", "U+11C58", "U+11C59">>,
       <<"U+11D50", "U+11D51", "U+11D52", "U+11D53", "U+11D54",
         "U+11D55", "U+11D56", "U+11D57", "U+11D58", "U+11D59">>,
       <<"U+11DA0", "U+11DA1", "U+11DA2", "U+11DA3", "U+11DA4",
         "U+11DA5", "U+11DA6", "U+11DA7", "U+11DA8", "U+11DA9">>,
       <<"U+16A60", "U+16A61", "U+16A62", "U+16A63", "U+16A64",
         "U+16A65", "U+16A66", "U+16A67", "U+16A68", "U+16A69">>,
       <<"U+16AC0", "U+16AC1", "U+16AC2", "U+16AC3", "U+16AC4",
         "U+16AC5", "U+16AC6", "U+16AC7", "U+16AC8", "U+16AC9">>,
       <<"U+16B50", "U+16B51", "U+16B52", "U+16B53", "U+16B54",
         "U+16B55", "U+16B56", "U+16B57", "U+16B58", "U+16B59">>,
       <<"U+1D7CE", "U+1D7CF", "U+1D7D0", "U+1D7D1", "U+1D7D2",
         "U+1D7D3", "U+1D7D4", "U+1D7D5", "U+1D7D6", "U+1D7D7">>,
       <<"U+1D7D8", "U+1D7D9", "U+1D7DA", "U+1D7DB", "U+1D7DC",
         "U+1D7DD", "U+1D7DE", "U+1D7DF", "U+1D7E0", "U+1D7E1">>,
       <<"U+1D7E2", "U+1D7E3", "U+1D7E4", "U+1D7E5", "U+1D7E6",
         "U+1D7E7", "U+1D7E8", "U+1D7E9", "U+1D7EA", "U+1D7EB">>,
       <<"U+1D7EC", "U+1D7ED", "U+1D7EE", "U+1D7EF", "U+1D7F0",
         "U+1D7F1", "U+1D7F2", "U+1D7F3", "U+1D7F4", "U+1D7F5">>,
       <<"U+1D7F6", "U+1D7F7", "U+1D7F8", "U+1D7F9", "U+1D7FA",
         "U+1D7FB", "U+1D7FC", "U+1D7FD", "U+1D7FE", "U+1D7FF">>,
       <<"U+1E140", "U+1E141", "U+1E142", "U+1E143", "U+1E144",
         "U+1E145", "U+1E146", "U+1E147", "U+1E148", "U+1E149">>,
       <<"U+1E2F0", "U+1E2F1", "U+1E2F2", "U+1E2F3", "U+1E2F4",
         "U+1E2F5", "U+1E2F6", "U+1E2F7", "U+1E2F8", "U+1E2F9">>,
       <<"U+1E950", "U+1E951", "U+1E952", "U+1E953", "U+1E954",
         "U+1E955", "U+1E956", "U+1E957", "U+1E958", "U+1E959">>,
       <<"U+1FBF0", "U+1FBF1", "U+1FBF2", "U+1FBF3", "U+1FBF4",
         "U+1FBF5", "U+1FBF6", "U+1FBF7", "U+1FBF8", "U+1FBF9">>
    >>

\* \d of a str pattern: every Unicode decimal digit
Digits == {DigitBlocks[b][k] : b \in DOMAIN DigitBlocks, k \in 1..10}

\* \s of a str pattern: [ \t\n\r\f\v], the ASCII separators 1C..1F and the
\* Unicode spaces
Whitespace ==
    {"\t", "\n", "U+000B", "\f", "\r", "U+001C", "U+001D", "U+001E",
     "U+001F", " ", "U+0085", "U+00A0", "U+1680", "U+2000", "U+2001",
     "U+2002", "U+2003", "U+2004", "U+2005", "U+2006", "U+2007", "U+2008",
     "U+2009", "U+200A", "U+2028", "U+2029", "U+202F", "U+205F", "U+3000"}

\* int() of one decimal digit, of any script
DigitVal(c) ==
    CASE c = "0" -> 0 [] c = "1" -> 1 [] c = "2" -> 2 [] c = "3" -> 3
      [] c = "4" -> 4 [] c = "5" -> 5 [] c = "6" -> 6 [] c = "7" -> 7
      [] c = "8" -> 8 [] c = "9" -> 9
      [] OTHER ->
           (CHOOSE k \in 1..10 :
               \E b \in DOMAIN DigitBlocks : DigitBlocks[b][k] = c) - 1

DigitChar(d) ==
    CASE d = 0 -> "0" [] d = 1 -> "1" [] d = 2 -> "2" [] d = 3 -> "3"
      [] d = 4 -> "4" [] d = 5 -> "5" [] d = 6 -> "6" [] d = 7 -> "7"
      [] d = 8 -> "8" [] d = 9 -> "9"

Min(S) == CHOOSE x \in S : \A y \in S : x <= y
Max(S) == CHOOSE x \in S : \A y \in S : x >= y

IsDigit(s, i) == i \in 1..Len(s) /\ s[i] \in Digits
InClass(s, i, C) == i \in 1..Len(s) /\ s[i] \in C

\* a literal at position i
LitAt(s, i, lit) ==
    /\ i >= 1
    /\ i + Len(lit) - 1 <= Len(s)
    /\ \A k \in 1..Len(lit) : s[i + k - 1] = lit[k]

\* \d+ at i (a digit is there): index of the last digit of the greedy run
RunEnd(s, i) ==
    Max({j \in i..Len(s) : \A k \in i..j : s[k] \in Digits})

\* \s* at i: index of the first character after the greedy run
SpaceEnd(s, i) ==
    Min({j \in i..(Len(s) + 1) :
            /\ \A k \in i..(j - 1) : s[k] \in Whitespace
            /\ (j = Len(s) + 1 \/ s[j] \notin Whitespace)})

\* int(s[i..j]) for a run of digits
RECURSIVE ToInt(_, _, _)
ToInt(s, i, j) ==
    IF j < i THEN 0 ELSE ToInt(s, i, j - 1) * 10 + DigitVal(s[j])

\* int(group) of the \d+ that starts at i
RunInt(s, i) == ToInt(s, i, RunEnd(s, i))

\* str(n), n >= 0
RECURSIVE IntToStr(_)
IntToStr(n) ==
    IF n < 10 THEN <<DigitChar(n)>>
    ELSE Append(IntToStr(n \div 10), DigitChar(n % 10))

\* format(n, "02d")
Pad2(n) == IF n < 10 THEN <<"0">> \o IntToStr(n) ELSE IntToStr(n)

\* s.split('.')[-1]
Extension(s) ==
    LET dots == {i \in 1..Len(s) : s[i] = "."}
    IN  IF dots = {} THEN s ELSE SubSeq(s, Max(dots) + 1, Len(s))

\* os.path.basename, os.path.dirname, os.path.join on paths
Basename(p) == IF Len(p) = 0 THEN <<>> ELSE p[Len(p)]
Dirname(p) == IF Len(p) = 0 THEN <<>> ELSE SubSeq(p, 1, Len(p) - 1)

\* the components of a name: n.split('/') without the empty pieces
RECURSIVE Components(_)
Components(n) ==
    IF n = <<>> THEN <<>>
    ELSE LET cut == {i \in 1..Len(n) : n[i] = "/"}
             e == IF cut = {} THEN Len(n) + 1 ELSE Min(cut)
             rest == Components(SubSeq(n, e + 1, Len(n)))
         IN  IF e = 1 THEN rest ELSE <<SubSeq(n, 1, e - 1)>> \o rest

\* os.path.join(d, n): n that starts with "/" is absolute and drops d
Join(d, n) ==
    IF n # <<>> /\ n[1] = "/" THEN Components(n) ELSE d \o Components(n)

----------------------------------------------------------------------------
\* Regular expressions of the two cascades; each XxxAt(s, p) says that the
\* pattern matches s starting at position p, re.search takes the least p.

FirstMatch(ps) == IF ps = {} THEN 0 ELSE Min(ps)

\* [C1](\d+)[C2](\d+)
TwoNumAt(s, p, C1, C2) ==
    /\ InClass(s, p, C1)
    /\ IsDigit(s, p + 1)
    /\ InClass(s, RunEnd(s, p + 1) + 1, C2)
    /\ IsDigit(s, RunEnd(s, p + 1) + 2)
TwoNumG1(s, p) == RunInt(s, p + 1)
TwoNumG2(s, p) == RunInt(s, RunEnd(s, p + 1) + 2)

\* (\d+)x(\d+)
CrossAt(s, p) ==
    /\ IsDigit(s, p)
    /\ InClass(s, RunEnd(s, p) + 1, {"x"})
    /\ IsDigit(s, RunEnd(s, p) + 2)
CrossG1(s, p) == RunInt(s, p)
CrossG2(s, p) == RunInt(s, RunEnd(s, p) + 2)

\* [C]lit\s*(\d+) : position of the first digit of the group, 0 when no match
WordNumDigit(s, p, C, lit) ==
    IF InClass(s, p, C) /\ LitAt(s, p + 1, lit)
       /\ IsDigit(s, SpaceEnd(s, p + 1 + Len(lit)))
    THEN SpaceEnd(s, p + 1 + Len(lit))
    ELSE 0

emporada == <<"e", "m", "p", "o", "r", "a", "d", "a">>
pisodio == <<"p", "i", "s", "o", "d", "i", "o">>
pisode == <<"p", "i", "s", "o", "d", "e">>
eason == <<"e", "a", "s", "o", "n">>

\* .*? between positions i and r: no flag re.S, so it crosses no newline
LazyGap(s, i, r) == \A k \in i..(r - 1) : s[k] # "\n"

\* [Tt]emporada\s*(\d+).*?[Ee]<tail>\s*(\d+)
TempAt(s, p, tail) ==
    /\ WordNumDigit(s, p, {"T", "t"}, emporada) # 0
    /\ \E r \in 1..Len(s) :
          /\ r > RunEnd(s, WordNumDigit(s, p, {"T", "t"}, emporada))
          /\ LazyGap(s, RunEnd(s, WordNumDigit(s, p, {"T", "t"}, emporada)) + 1, r)
          /\ WordNumDigit(s, r, {"E", "e"}, tail) # 0
TempG1(s, p) == RunInt(s, WordNumDigit(s, p, {"T", "t"}, emporada))
TempG2(s, p, tail) ==
    LET e1 == RunEnd(s, WordNumDigit(s, p, {"T", "t"}, emporada))
        r == Min({q \in (e1 + 1)..Len(s) :
                     /\ LazyGap(s, e1 + 1, q)
                     /\ WordNumDigit(s, q, {"E", "e"}, tail) # 0})
    IN  RunInt(s, WordNumDigit(s, r, {"E", "e"}, tail))

\* .*?(\d)[.](\d+)
DottedAt(s, r) == IsDigit(s, r) /\ InClass(s, r + 1, {"."}) /\ IsDigit(s, r + 2)

----------------------------------------------------------------------------
\* Metadata of the external collaborator (TMDB): the media a search returns
\* and the episode titles of each season.

Str_A == <<"A">>
Str_B == <<"B">>
Str_M == <<"M">>
Str_L == <<"L">>
Str_Pilot == <<"P">>

SeriesIds == {1, 2}
MovieIds == {3}
MediaIds == SeriesIds \cup MovieIds


\* the items of search_results: name/title, year of first_air_date or
\* release_date (<<>> when the date is missing), number_of_seasons of /tv/{id}
MediaName(id) ==
    CASE id = 1 -> Str_A [] id = 2 -> Str_B [] id = 3 -> Str_M [] id = 4 -> Str_L
MediaYear(id) ==
    CASE id = 1 -> <<"2", "0", "0", "8">> [] id = 2 -> <<>>
      [] id = 3 -> <<"1", "9", "9", "4">> [] id = 4 -> <<"1", "9", "6", "3">>
MediaSeasons(id) ==
    CASE id = 1 -> 2 [] id = 2 -> 1 [] id = 3 -> 0 [] id = 4 -> 120


\* whether the item has a poster_path
MediaPoster(id) == id # 2

\* current_media_info.get("name", "") for "tv" and .get("title", "") for
\* "movie": a series item has no "title" and a movie item has no "name"
MediaTitle(mtype, id) ==
    IF (mtype = "movie") = (id \in MovieIds) THEN MediaName(id) ELSE <<>>

\* the first four characters of .get("first_air_date", "") for "tv" and of
\* .get("release_date", "") for "movie"
MediaDate(mtype, id) ==
    IF (mtype = "movie") = (id \in MovieIds) THEN MediaYear(id) ELSE <<>>

EmptyDict == <<>>

\* {episode_number: name} of /tv/{id}/season/{season}
SeasonDict(id, season) ==
    IF id = 1 /\ season = 1 THEN (2 :> Str_Pilot)
    ELSE IF id = 4 /\ season = 3 THEN (7 :> Str_Pilot)
    ELSE IF id = 4 THEN (12 :> Str_Pilot)
    ELSE (1 :> Str_Pilot)

NoMedia == [id |-> 0, number_of_seasons |-> 0]
NoEpisodes == [series |-> 0, season |-> 0]
NoSeasons == [series |-> 0, upto |-> 0]

\* the dict held by self.episodes_info
EpisodesDict(info) ==
    IF info.series = 0 THEN EmptyDict ELSE SeasonDict(info.series, info.season)

\* the dict held by self.all_seasons_info: seasons 1..upto of the series
AllSeasonsDict(info) ==
    [s \in 1..info.upto |-> SeasonDict(info.series, s)]

\* dict.get(key, "")
DictGet_AnyTitle(d, key) == IF DOMAIN d = {} THEN <<>> ELSE d[CHOOSE k \in DOMAIN d : TRUE]
DictGet(d, key) == IF key \in DOMAIN d THEN d[key] ELSE <<>>

----------------------------------------------------------------------------
\* Rendering

Sp == <<" ">>
Fmt_S == <<" ", "S">>
Fmt_E == <<"E">>
Fmt_Dash == <<" ", "-", " ">>
Fmt_x == <<"x">>
Fmt_Temporada == <<" ", "-", " ", "T", "e", "m", "p", "o", "r", "a", "d", "a", " ">>
Fmt_Episodio == <<" ", "E", "p", "i", "s", "o", "d", "i", "o", " ">>
Dot == <<".">>


\* config["tv_formats"][format_index].format(title=, season=, episode=, episode_title=)
FormatTv_Truncated(format_index, title, season, episode, episode_title) ==
    CASE format_index = 0 ->
            title \o Fmt_S \o Pad2(season % 100) \o Fmt_E \o Pad2(episode % 100)
      [] format_index = 1 ->
            title \o Fmt_S \o Pad2(season % 100) \o Fmt_E \o Pad2(episode % 100)
                  \o Sp \o episode_title
      [] format_index = 2 ->
            title \o Fmt_Dash \o IntToStr(season % 100) \o Fmt_x
                  \o Pad2(episode % 100)
      [] format_index = 3 ->
            title \o Fmt_Temporada \o IntToStr(season % 100)
                  \o Fmt_Episodio \o Pad2(episode % 100)
FormatTv(format_index, title, season, episode, episode_title) ==
    CASE format_index = 0 ->
            title \o Fmt_S \o Pad2(season) \o Fmt_E \o Pad2(episode)
      [] format_index = 1 ->
            title \o Fmt_S \o Pad2(season) \o Fmt_E \o Pad2(episode)
                  \o Sp \o episode_title
      [] format_index = 2 ->
            title \o Fmt_Dash \o IntToStr(season) \o Fmt_x \o Pad2(episode)
      [] format_index = 3 ->
            title \o Fmt_Temporada \o IntToStr(season)
                  \o Fmt_Episodio \o Pad2(episode)

\* config["movie_formats"][format_index].format(title=, year=)
FormatMovie(format_index, title, year) ==
    CASE format_index = 0 -> title \o <<" ", "(">> \o year \o <<")">>
      [] format_index = 1 -> title \o <<" ", "[">> \o year \o <<"]">>
      [] format_index = 2 -> title \o Sp \o year
      [] format_index = 3 -> title \o Fmt_Dash \o year

\* the cascade of generate_tv_filename: the episode number, None without match
SingleSeasonEpisode_LastResortFirst(file_name) ==
    IF \E p \in 1..Len(file_name) : IsDigit(file_name, p)
    THEN RunInt(file_name, FirstMatch({p \in 1..Len(file_name) : IsDigit(file_name, p)}))
    ELSE None
SingleSeasonEpisode(file_name) ==
    LET s == file_name
        P == 1..Len(s)
        p1 == FirstMatch({p \in P : TwoNumAt(s, p, {"S", "s"}, {"E", "e"})})
        p2 == FirstMatch({p \in P : CrossAt(s, p)})
        p3 == FirstMatch({p \in P : InClass(s, p, {"E", "e"}) /\ IsDigit(s, p + 1)})
        p4 == FirstMatch({p \in P : WordNumDigit(s, p, {"E", "e"}, pisode) # 0})
        p5 == FirstMatch({p \in P : IsDigit(s, p)})
    IN  IF p1 # 0 THEN TwoNumG2(s, p1)
        ELSE IF p2 # 0 THEN CrossG2(s, p2)
        ELSE IF p3 # 0 THEN RunInt(s, p3 + 1)
        ELSE IF p4 # 0 THEN RunInt(s, WordNumDigit(s, p4, {"E", "e"}, pisode))
        ELSE IF p5 # 0 THEN RunInt(s, p5)
        ELSE None

\* lines 1352-1382: the placeholder name, or the name in the selected format
RenderEpisode(file_name, series_title, season_number, episode_number, ep_dict, tv_format) ==
    IF episode_number = None
    THEN [name |-> series_title \o Fmt_S \o Pad2(season_number)
                      \o <<"E", "X", "X">> \o Dot \o Extension(file_name),
          episode |-> None]
    ELSE [name |-> FormatTv(tv_format, series_title, season_number,
                            episode_number, DictGet(ep_dict, episode_number))
                      \o Dot \o Extension(file_name),
          episode |-> episode_number]

generate_tv_filename(file_name, series_title, season_number, ep_dict, tv_format) ==
    RenderEpisode(file_name, series_title, season_number,
                  SingleSeasonEpisode(file_name), ep_dict, tv_format)

\* the filename cascade of generate_tv_filename_auto_season
AutoFromName(file_name) ==
    LET s == file_name
        P == 1..Len(s)
        p1 == FirstMatch({p \in P : TwoNumAt(s, p, {"S", "s"}, {"E", "e"})})
        p2 == FirstMatch({p \in P : CrossAt(s, p)})
        p3 == FirstMatch({p \in P : TempAt(s, p, pisodio)})
        p4 == FirstMatch({p \in P : TempAt(s, p, <<"p">>)})
        p5 == FirstMatch({p \in P : TwoNumAt(s, p, {"T", "t"}, {"E", "e"})})
        p6 == FirstMatch({p \in P : DottedAt(s, p)})
    IN  IF p1 # 0 THEN <<TwoNumG1(s, p1), TwoNumG2(s, p1)>>
        ELSE IF p2 # 0 THEN <<CrossG1(s, p2), CrossG2(s, p2)>>
        ELSE IF p3 # 0 THEN <<TempG1(s, p3), TempG2(s, p3, pisodio)>>
        ELSE IF p4 # 0 THEN <<TempG1(s, p4), TempG2(s, p4, <<"p">>)>>
        ELSE IF p5 # 0 THEN <<TwoNumG1(s, p5), TwoNumG2(s, p5)>>
        ELSE IF p6 # 0 THEN <<DigitVal(s[p6]), RunInt(s, p6 + 2)>>
        ELSE <<None, None>>

\* [Ss]eason\s*(\d+)|[Tt]emporada\s*(\d+)|[Ss](\d+)|[Tt](\d+) on the directory
\* name: position of the first digit of the group that matched at p, else 0
SeasonMarkAt(s, p) ==
    IF WordNumDigit(s, p, {"S", "s"}, eason) # 0
    THEN WordNumDigit(s, p, {"S", "s"}, eason)
    ELSE IF WordNumDigit(s, p, {"T", "t"}, emporada) # 0
    THEN WordNumDigit(s, p, {"T", "t"}, emporada)
    ELSE IF InClass(s, p, {"S", "s", "T", "t"}) /\ IsDigit(s, p + 1)
    THEN p + 1
    ELSE 0

DirSeason(dir_name) ==
    LET p == FirstMatch({q \in 1..Len(dir_name) : SeasonMarkAt(dir_name, q) # 0})
    IN  IF p = 0 THEN None ELSE RunInt(dir_name, SeasonMarkAt(dir_name, p))

\* [Ee](\d+)|[Ee]pisode\s*(\d+)|[Ee]p\s*(\d+)|(\d+) on the file name
EpMarkAt(s, p) ==
    IF InClass(s, p, {"E", "e"}) /\ IsDigit(s, p + 1) THEN p + 1
    ELSE IF WordNumDigit(s, p, {"E", "e"}, pisode) # 0
    THEN WordNumDigit(s, p, {"E", "e"}, pisode)
    ELSE IF WordNumDigit(s, p, {"E", "e"}, <<"p">>) # 0
    THEN WordNumDigit(s, p, {"E", "e"}, <<"p">>)
    ELSE IF IsDigit(s, p) THEN p
    ELSE 0

BareEpisode(file_name) ==
    LET p == FirstMatch({q \in 1..Len(file_name) : EpMarkAt(file_name, q) # 0})
    IN  IF p = 0 THEN None ELSE RunInt(file_name, EpMarkAt(file_name, p))

\* season_number, episode_number of generate_tv_filename_auto_season before
\* the check against all_seasons_info
AutoParse_DirFirst(file_path) ==
    IF DirSeason(Basename(Dirname(file_path))) # None
    THEN <<DirSeason(Basename(Dirname(file_path))),
           BareEpisode(Basename(file_path))>>
    ELSE AutoFromName(Basename(file_path))
AutoParse(file_path) ==
    LET file_name == Basename(file_path)
        dir_name == Basename(Dirname(file_path))
        fromName == AutoFromName(file_name)
    IN  IF fromName[1] # None THEN fromName
        ELSE IF DirSeason(dir_name) # None
        THEN <<DirSeason(dir_name), BareEpisode(file_name)>>
        ELSE <<None, None>>

InSeasons(season_number, all_dict) == season_number \in DOMAIN all_dict

\* lines 1432-1472: season_number and episode_number are what the patterns
\* gave; the name and the pair that are returned
RenderDetected_NoGate(file_name, season_number, episode_number, series_title, all_dict, tv_format) ==
    IF season_number = None \/ episode_number = None
    THEN [name |-> file_name, season |-> None, episode |-> None]
    ELSE [name |-> FormatTv(tv_format, series_title, season_number,
                            episode_number,
                            IF InSeasons(season_number, all_dict)
                            THEN DictGet(all_dict[season_number], episode_number)
                            ELSE <<>>)
                      \o Dot \o Extension(file_name),
          season |-> season_number,
          episode |-> episode_number]
RenderDetected(file_name, season_number, episode_number, series_title, all_dict, tv_format) ==
    IF season_number = None \/ episode_number = None
    THEN [name |-> file_name, season |-> None, episode |-> None]
    ELSE IF ~InSeasons(season_number, all_dict)
    THEN [name |-> file_name, season |-> None, episode |-> None]
    ELSE [name |-> FormatTv(tv_format, series_title, season_number,
                            episode_number,
                            DictGet(all_dict[season_number], episode_number))
                      \o Dot \o Extension(file_name),
          season |-> season_number,
          episode |-> episode_number]

\* the tuple of AutoParse handed on as season_number and episode_number
RenderParsed(file_name, parsed, series_title, all_dict, tv_format) ==
    RenderDetected(file_name, parsed[1], parsed[2], series_title, all_dict,
                   tv_format)

generate_tv_filename_auto_season(file_path, series_title, all_dict, tv_format) ==
    RenderParsed(Basename(file_path), AutoParse(file_path), series_title,
                 all_dict, tv_format)

generate_movie_filename(file_name, movie_title, year, movie_format) ==
    FormatMovie(movie_format, movie_title, year) \o Dot \o Extension(file_name)

----------------------------------------------------------------------------
\* str.format on a format string.  A format string is the sequence of its
\* pieces: literal text, a replacement field {name} or {name:02d}, or a single
\* "{" that opens no field.  The result is the text, or the exception that
\* str.format raises at the first piece it cannot format.

Lit(text) == [kind |-> "lit", name |-> "", spec |-> "", text |-> text]
Field(name, spec) == [kind |-> "field", name |-> name, spec |-> spec, text |-> <<>>]
OpenBrace == [kind |-> "open", name |-> "", spec |-> "", text |-> <<>>]

IntArg(n) == [t |-> "int", v |-> n]
StrArg(str) == [t |-> "str", v |-> str]

Formatted(text) == [exc |-> "none", text |-> text]
Raises(exc) == [exc |-> exc, text |-> <<>>]

\* the value of a replacement field: str(value), or format(value, "02d")
FormatValue(value, spec) ==
    IF spec = "02d"
    THEN IF value.t = "int" THEN Formatted(Pad2(value.v)) ELSE Raises("ValueError")
    ELSE Formatted(IF value.t = "int" THEN IntToStr(value.v) ELSE value.v)

\* one piece under the keyword arguments kwargs
FormatPiece(piece, kwargs) ==
    CASE piece.kind = "lit" -> Formatted(piece.text)
      [] piece.kind = "open" -> Raises("ValueError")
      [] piece.kind = "field" ->
            IF piece.name = "0" THEN Raises("IndexError")
            ELSE IF piece.name \notin DOMAIN kwargs THEN Raises("KeyError")
            ELSE FormatValue(kwargs[piece.name], piece.spec)

\* the text of a piece in front of the formatted rest
Prepend(here, rest) ==
    IF here.exc # "none" THEN here
    ELSE IF rest.exc # "none" THEN rest
    ELSE Formatted(here.text \o rest.text)

\* format_str.format(**kwargs)
RECURSIVE StrFormat(_, _)
StrFormat(format_str, kwargs) ==
    IF Len(format_str) = 0 THEN Formatted(<<>>)
    ELSE IF FormatPiece(Head(format_str), kwargs).exc # "none"
    THEN FormatPiece(Head(format_str), kwargs)
    ELSE Prepend(FormatPiece(Head(format_str), kwargs),
                 StrFormat(Tail(format_str), kwargs))

\* config["tv_formats"] and config["movie_formats"], lines 678-689
TvFormats ==
    <<<<Field("title", ""), Lit(Fmt_S), Field("season", "02d"), Lit(Fmt_E),
        Field("episode", "02d")>>,
      <<Field("title", ""), Lit(Fmt_S), Field("season", "02d"), Lit(Fmt_E),
        Field("episode", "02d"), Lit(Sp), Field("episode_title", "")>>,
      <<Field("title", ""), Lit(Fmt_Dash), Field("season", ""), Lit(Fmt_x),
        Field("episode", "02d")>>,
      <<Field("title", ""), Lit(Fmt_Temporada), Field("season", ""),
        Lit(Fmt_Episodio), Field("episode", "02d")>>>>
MovieFormats ==
    <<<<Field("title", ""), Lit(<<" ", "(">>), Field("year", ""), Lit(<<")">>)>>,
      <<Field("title", ""), Lit(<<" ", "[">>), Field("year", ""), Lit(<<"]">>)>>,
      <<Field("title", ""), Lit(Sp), Field("year", "")>>,
      <<Field("title", ""), Lit(Fmt_Dash), Field("year", "")>>>>

\* lines 1372-1376 and 1460-1464: the name of the except KeyError branch
BasicTvName(title, season, episode, episode_title) ==
    title \o Fmt_S \o Pad2(season) \o Fmt_E \o Pad2(episode)
        \o (IF episode_title # <<>> THEN Sp \o episode_title ELSE <<>>)

\* line 1492
BasicMovieName(title, year) ==
    IF year # <<>> THEN title \o <<" ", "(">> \o year \o <<")">> ELSE title

\* the try statement around format_str.format: KeyError is caught, any other
\* exception leaves the function
CatchKeyError(r, basic) ==
    IF r.exc = "KeyError" THEN Formatted(basic) ELSE r

\* name_part of generate_tv_filename and generate_tv_filename_auto_season
TvNamePart_StrSeason(format_str, title, season, episode, episode_title) ==
    CatchKeyError(StrFormat(format_str,
                            [title |-> StrArg(title),
                             season |-> StrArg(IntToStr(season)),
                             episode |-> IntArg(episode),
                             episode_title |-> StrArg(episode_title)]),
                  BasicTvName(title, season, episode, episode_title))
TvNamePart(format_str, title, season, episode, episode_title) ==
    CatchKeyError(StrFormat(format_str,
                            [title |-> StrArg(title), season |-> IntArg(season),
                             episode |-> IntArg(episode),
                             episode_title |-> StrArg(episode_title)]),
                  BasicTvName(title, season, episode, episode_title))

\* name_part of generate_movie_filename
MovieNamePart(format_str, title, year) ==
    CatchKeyError(StrFormat(format_str,
                            [title |-> StrArg(title), year |-> StrArg(year)]),
                  BasicMovieName(title, year))

----------------------------------------------------------------------------
\* Inputs: file names built from tokens, in a few directories

Tok_S1 == <<"S", "1">>
Tok_E2 == <<"E", "2">>
Tok_x2 == <<"x", "2">>
Tok_T1 == <<"T", "1">>
Tok_Temporada == <<"T", "e", "m", "p", "o", "r", "a", "d", "a", " ", "1">>
Tok_Episodio == <<"E", "p", "i", "s", "o", "d", "i", "o", " ", "2">>
Tok_Episode == <<"E", "p", "i", "s", "o", "d", "e", " ", "2">>
Tok_ep == <<"e", "p", "\t", "3">>
Tok_dot2 == <<".", "2">>
Tok_ar3 == <<"U+0663">>

Tokens == {Tok_S1, Tok_E2, Tok_x2, Tok_T1, Tok_Temporada, Tok_Episodio,
           Tok_Episode, Tok_ep, Tok_dot2, Tok_ar3, <<"1">>, <<"0">>, <<"a">>}

Ext_mkv == <<".", "m", "k", "v">>
Ext_mp4 == <<".", "m", "p", "4">>
Extensions == {Ext_mkv, Ext_mp4}

\* the largest number of tokens in a generated file name
MaxTokens == 2

RECURSIVE TokenStrings(_)
TokenStrings(n) ==
    IF n = 0 THEN {<<>>}
    ELSE TokenStrings(n - 1)
            \cup {s \o t : s \in TokenStrings(n - 1), t \in Tokens}

GenNames == {s \o e : s \in TokenStrings(MaxTokens), e \in Extensions}

Dir_d == <<"d">>
Dir_Season2 == <<"S", "e", "a", "s", "o", "n", " ", "2">>
Dir_T9 == <<"T", "9">>
GenDirs == {<<Dir_d>>, <<Dir_d, Dir_Season2>>, <<Dir_d, Dir_T9>>}

GenPaths == {Join(d, n) : d \in GenDirs, n \in GenNames}

----------------------------------------------------------------------------
\* update_preview and update_rename_button

\* what update_preview reads besides files_to_rename
Ui ==
    [mtype |-> selected_media_type, media |-> current_media_info,
     detect |-> detect_all_seasons, combo_count |-> season_combo_count,
     combo_current |-> season_combo_current, ep_info |-> episodes_info,
     all_info |-> all_seasons_info, cfg |-> config]

\* lines 1296-1297: new_name, episode_num = generate_tv_filename(...) and
\* season_num = season_number
WithSeason(r, season_number) ==
    [name |-> r.name, season |-> season_number, episode |-> r.episode]

\* one iteration of the loop of update_preview: new_name, season_num, episode_num
PreviewEntry(file_path, ui) ==
    LET file_name == Basename(file_path)
        title == MediaTitle(ui.mtype, ui.media.id)
    IN  IF ui.mtype = "tv"
        THEN IF ui.detect
             THEN generate_tv_filename_auto_season(file_path, title,
                        AllSeasonsDict(ui.all_info), ui.cfg.tv_format)
             ELSE LET season_number ==
                          IF ui.combo_count > 0 THEN ui.combo_current ELSE None
                  IN  IF season_number = None
                      THEN [name |-> file_name, season |-> None, episode |-> None]
                      ELSE WithSeason(generate_tv_filename(file_name, title,
                                        season_number, EpisodesDict(ui.ep_info),
                                        ui.cfg.tv_format),
                                      season_number)
        ELSE [name |-> generate_movie_filename(file_name, title,
                            MediaDate(ui.mtype, ui.media.id), ui.cfg.movie_format),
              season |-> None, episode |-> None]

\* the entries update_preview appends, in the order of files_to_rename
RECURSIVE PreviewEntries(_, _)
PreviewEntries_SkipFirst(files, ui) ==
    [i \in 1..(Len(files) - 1) |-> PreviewEntry(files[i + 1], ui)]
PreviewEntries(files, ui) ==
    IF files = <<>> THEN <<>>
    ELSE <<PreviewEntry(Head(files), ui)>> \o PreviewEntries(Tail(files), ui)

\* the names and the (season_num, episode_num) pairs of the entries
PreviewLists(es) ==
    [names |-> [i \in 1..Len(es) |-> es[i].name],
     nums |-> [i \in 1..Len(es) |-> <<es[i].season, es[i].episode>>]]

\* new_filenames and the (season_num, episode_num) pairs after update_preview
PreviewOf(files, ui) ==
    IF files = <<>> \/ ui.media = NoMedia
    THEN [names |-> <<>>, nums |-> <<>>]
    ELSE PreviewLists(PreviewEntries(files, ui))

\* episodes_by_season of update_preview is not empty
HasEpisodes(mtype, nums) ==
    mtype = "tv" /\ \E i \in 1..Len(nums) : nums[i][1] # None /\ nums[i][2] # None

\* preview_tabs.currentIndex() after update_preview
TabAfterPreview(files, media, mtype, nums, tab) ==
    IF files = <<>> \/ media = NoMedia THEN tab
    ELSE IF HasEpisodes(mtype, nums) THEN 1 ELSE 0

\* update_rename_button
ButtonEnabled_NoMedia(files, media, names) ==
    Len(files) > 0 /\ Len(names) = Len(files)
ButtonEnabled(files, media, names) ==
    Len(files) > 0 /\ media # NoMedia /\ Len(names) = Len(files)

\* the end of update_preview: the lists, the tab and the button
ShowPreview(pv) ==
    /\ new_filenames' = pv.names
    /\ preview_nums' = pv.nums
    /\ preview_tab' = TabAfterPreview(files_to_rename', current_media_info',
                                      selected_media_type', preview_nums',
                                      preview_tab)
    /\ rename_button' = ButtonEnabled(files_to_rename', current_media_info',
                                      new_filenames')

\* update_preview() called when the other variables have their primed values
UpdatePreview == ShowPreview(PreviewOf(files_to_rename', Ui'))

----------------------------------------------------------------------------
\* Bounds of the application model

\* the largest number of files the operator has in the list
MaxFiles == 2

\* the formats the operator chooses in the configuration dialog
TvFormatChoices == {0, 2}
MovieFormatChoices == {0, 1}

----------------------------------------------------------------------------
\* The files and directories of the operator

Name_S1E2 == <<"S", "1", "E", "2", ".", "m", "k", "v">>
Name_S9E1 == <<"S", "9", "E", "1", ".", "m", "k", "v">>
Name_abc == <<"a", "b", "c", ".", "a", "v", "i">>
Dir_e == <<"e">>
Dir_base == <<"b">>

File_1 == <<Dir_d, Name_S1E2>>
File_2 == <<Dir_e, Name_S1E2>>
File_3 == <<Dir_d, Name_S9E1>>
File_4 == <<Dir_d, Name_abc>>
SourceOrder == <<File_1, File_2, File_3, File_4>>
SourceFiles == {SourceOrder[k] : k \in 1..Len(SourceOrder)}

\* a file that is already where a rendered file of series 1 goes
Name_A_S01E02 == <<"A", " ", "S", "0", "1", "E", "0", "2", ".", "m", "k", "v">>
Dir_Season01 == <<"S", "e", "a", "s", "o", "n", " ", "0", "1">>
Pre_1 == <<Dir_d, Name_A_S01E02>>
Pre_2 == <<Dir_d, Dir_Season01, Name_A_S01E02>>
PreTargets == {Pre_1, Pre_2}
PreContent == <<<<"p", "r", "e">>>>

BaseDirs == {<<Dir_base>>}

\* the directories above a path, the path included
Ancestors(d) == {SubSeq(d, 1, k) : k \in 1..Len(d)}

----------------------------------------------------------------------------
\* Worker threads.  ep_fetcher and all_fetcher are the requests of the threads
\* that are running (NoEpisodes, NoSeasons: none is).  signals holds the
\* finished signals already posted to the GUI thread, which the event loop
\* delivers in their order, before or after the operator's next action.
\* load_season_episodes and load_all_seasons stop() the running thread first,
\* which then emits its result, or nothing when it was stopped before run()
\* tested is_running.

\* the queue holds at most MaxSignals posted signals: a stopped thread emits
\* only while there is room
MaxSignals == 1

EpSignal(info) == [kind |-> "episodes", series |-> info.series, n |-> info.season]
AllSignal(info) == [kind |-> "all_seasons", series |-> info.series, n |-> info.upto]

\* what SeasonEpisodesFetcher(series_id, season_number) emits: the dict, or {}
EpResults(request) == {request, NoEpisodes}

\* what AllSeasonsFetcher(series_id, num_seasons) emits: seasons 1..num_seasons,
\* or {} after an exception
AllResults(request) == {request, NoSeasons}

\* what a stopped AllSeasonsFetcher emits: the seasons fetched so far
AllPartial(request) ==
    {IF k = 0 THEN NoSeasons ELSE [series |-> request.series, upto |-> k] :
        k \in 0..request.upto}

\* the signals posted by episodes_fetcher.stop()
StopEpSignals(fetcher) ==
    IF fetcher = NoEpisodes THEN {<<>>}
    ELSE {<<>>} \cup {<<EpSignal(r)>> : r \in EpResults(fetcher)}

\* the signals posted by all_seasons_fetcher.stop()
StopAllSignals(fetcher) ==
    IF fetcher = NoSeasons THEN {<<>>}
    ELSE {<<>>} \cup {<<AllSignal(r)>> : r \in AllPartial(fetcher)}

\* load_all_seasons() does start a thread
LoadsAllSeasons(media) == media # NoMedia /\ media.number_of_seasons # 0

\* load_all_seasons() called when current_media_info has its primed value
load_all_seasons ==
    IF LoadsAllSeasons(current_media_info')
    THEN /\ \E st \in StopAllSignals(all_fetcher) : signals' = signals \o st
         /\ Len(signals') <= MaxSignals
         /\ all_fetcher' = [series |-> current_media_info'.id,
                            upto |-> current_media_info'.number_of_seasons]
    ELSE UNCHANGED <<all_fetcher, signals>>

----------------------------------------------------------------------------
\* The state after TMDBRenamer.__init__

BatchIdle ==
    [i |-> 0, n |-> 0, success_count |-> 0, error_files |-> <<>>,
     main_folder_path |-> <<>>, organize_seasons |-> FALSE,
     organize_movies |-> FALSE, asked |-> <<>>, outcomes |-> <<>>,
     season_files |-> FALSE, fs0 |-> <<>>, moves |-> <<>>, names |-> <<>>,
     asking |-> FALSE, result |-> "none"]

DefaultConfig ==
    [tv_format |-> 0, movie_format |-> 0, download_posters |-> FALSE,
     organize_movies |-> TRUE]

\* the filesystem: the operator's files, and files already at a target
InitFiles(pre) ==
    [p \in SourceFiles \cup pre |-> IF p \in SourceFiles THEN p ELSE PreContent]
InitDirs(pre) ==
    UNION {Ancestors(Dirname(p)) : p \in SourceFiles \cup pre}
        \cup UNION {Ancestors(b) : b \in BaseDirs}

InitUI ==
    /\ selected_media_type = "tv"
    /\ current_media_info = NoMedia
    /\ season_combo_count = 0
    /\ season_combo_current = None
    /\ detect_all_seasons = FALSE
    /\ episodes_info = NoEpisodes
    /\ all_seasons_info = NoSeasons
    /\ ep_fetcher = NoEpisodes
    /\ all_fetcher = NoSeasons
    /\ signals = <<>>
    /\ files_to_rename = <<>>
    /\ new_filenames = <<>>
    /\ preview_nums = <<>>
    /\ rename_button = FALSE
    /\ base_directory = <<>>
    /\ organize_seasons_checkbox = TRUE
    /\ config = DefaultConfig
    /\ preview_tab = 0
    /\ pc = "idle"
    /\ batch = BatchIdle

Init ==
    /\ InitUI
    /\ fs_files = InitFiles({})
    /\ fs_dirs = InitDirs({})

fs_vars == <<fs_files, fs_dirs>>
preview_vars == <<new_filenames, preview_nums, preview_tab, rename_button>>
fetch_vars == <<ep_fetcher, all_fetcher, signals>>

\* the GUI thread is in the main event loop, where the operator's next action
\* is handled, whether or not posted signals wait for their delivery
Idle == pc = "idle"

----------------------------------------------------------------------------
\* Paths of rename_files

\* os.path.exists
Exists(path) == path \in DOMAIN fs_files \/ path \in fs_dirs

Str_Season == <<"S", "e", "a", "s", "o", "n", " ">>

\* main_folder_name: title and " (year)" when the date is known
MainFolderName_NoYear(mtype, media) == MediaTitle(mtype, media.id)
MainFolderName(mtype, media) ==
    MediaTitle(mtype, media.id)
        \o (IF MediaDate(mtype, media.id) # <<>>
            THEN <<" ", "(">> \o MediaDate(mtype, media.id) \o <<")">> ELSE <<>>)

\* root_directory
RootDirectory == IF base_directory # <<>> THEN base_directory
                 ELSE Dirname(files_to_rename[1])

\* re.search(r'S(\d+)E(\d+)', new_name): position of the match, 0 without
SeasonTokenAt(new_name) ==
    FirstMatch({p \in 1..Len(new_name) : TwoNumAt(new_name, p, {"S"}, {"E"})})

\* the season directory of a rendered name, <<>> when it has none
SeasonDir(main_folder_path, new_name, organize_seasons) ==
    IF organize_seasons /\ SeasonTokenAt(new_name) # 0
    THEN Join(main_folder_path,
              Str_Season \o Pad2(TwoNumG1(new_name, SeasonTokenAt(new_name))))
    ELSE <<>>

\* new_path of a rendered name
NewPath_Flat(main_folder_path, new_name, organize_seasons) == Join(main_folder_path, new_name)
NewPath(main_folder_path, new_name, organize_seasons) ==
    IF SeasonDir(main_folder_path, new_name, organize_seasons) # <<>>
    THEN Join(SeasonDir(main_folder_path, new_name, organize_seasons), new_name)
    ELSE Join(main_folder_path, new_name)

\* line 1609: os.path.exists(new_path) and old_path != new_path
Conflict_Always(old_path, new_path) == old_path # new_path
Conflict(old_path, new_path) == Exists(new_path) /\ old_path # new_path

\* rename_files is at QMessageBox.question of the file batch.i
AtQuestion == pc = "loop" /\ batch.asking

\* the GUI thread is in an event loop, the main one or the one that a modal
\* dialog runs inside a handler, where posted finished signals are delivered;
\* after closeEvent the loop still runs until QApplication.exec_ returns
EventLoop ==
    \/ pc \in {"idle", "tab_box", "finish_box", "config", "summary", "aborted",
               "closed"}
    \/ AtQuestion

----------------------------------------------------------------------------
\* Handlers of the operator's actions and of the finished signals

\* select_base_directory: the dialog returned a directory
select_base_directory(directory) ==
    /\ Idle
    /\ base_directory' = directory
    /\ UNCHANGED <<selected_media_type, current_media_info, season_combo_count,
                   season_combo_current, detect_all_seasons, episodes_info,
                   all_seasons_info, fetch_vars, files_to_rename,
                   organize_seasons_checkbox, config, fs_vars, preview_vars,
                   pc, batch>>

\* the operator ticks or unticks "Organizar en carpetas de temporadas"
organize_seasons_toggled ==
    /\ Idle
    /\ selected_media_type = "tv"
    /\ organize_seasons_checkbox' = ~organize_seasons_checkbox
    /\ UNCHANGED <<selected_media_type, current_media_info, season_combo_count,
                   season_combo_current, detect_all_seasons, episodes_info,
                   all_seasons_info, fetch_vars, files_to_rename,
                   base_directory, config, fs_vars, preview_vars, pc, batch>>

\* toggle_media_type: search_type_combo changed to the other entry
toggle_media_type ==
    /\ Idle
    /\ selected_media_type' = IF selected_media_type = "tv" THEN "movie" ELSE "tv"
    /\ preview_tab' = IF selected_media_type' = "tv" THEN preview_tab ELSE 0
    /\ season_combo_count' = 0
    /\ season_combo_current' = None
    /\ current_media_info' = NoMedia
    /\ episodes_info' = NoEpisodes
    /\ all_seasons_info' = NoSeasons
    /\ rename_button' = ButtonEnabled(files_to_rename, NoMedia, new_filenames)
    /\ UNCHANGED <<detect_all_seasons, fetch_vars, files_to_rename,
                   new_filenames, preview_nums, base_directory,
                   organize_seasons_checkbox, config, fs_vars, pc, batch>>

\* the body of toggle_detect_all_seasons(state)
DetectAllSeasonsSet(detect) ==
    /\ detect_all_seasons' = detect
    /\ IF current_media_info' = NoMedia
       THEN UNCHANGED <<all_fetcher, signals, preview_vars>>
       ELSE IF detect /\ all_seasons_info = NoSeasons
            THEN /\ load_all_seasons
                 /\ UNCHANGED preview_vars
            ELSE /\ UNCHANGED <<all_fetcher, signals>>
                 /\ UpdatePreview

\* toggle_detect_all_seasons: the operator flips the checkbox
toggle_detect_all_seasons ==
    /\ Idle
    /\ selected_media_type = "tv"
    /\ UNCHANGED <<selected_media_type, current_media_info, season_combo_count,
                   season_combo_current, episodes_info, all_seasons_info,
                   ep_fetcher, files_to_rename, base_directory,
                   organize_seasons_checkbox, config, fs_vars, pc, batch>>
    /\ DetectAllSeasonsSet(~detect_all_seasons)

\* stop_all_threads: episodes_fetcher.stop() and all_seasons_fetcher.stop(),
\* each thread emitting what it has or nothing
stop_all_threads ==
    /\ \E s1 \in StopEpSignals(ep_fetcher), s2 \in StopAllSignals(all_fetcher) :
          signals' = signals \o s1 \o s2
    /\ Len(signals') <= MaxSignals
    /\ ep_fetcher' = NoEpisodes
    /\ all_fetcher' = NoSeasons

\* closeEvent: the operator closes the main window
closeEvent ==
    /\ Idle
    /\ stop_all_threads
    /\ pc' = "closed"
    /\ UNCHANGED <<selected_media_type, current_media_info, season_combo_count,
                   season_combo_current, detect_all_seasons, episodes_info,
                   all_seasons_info, files_to_rename, base_directory,
                   organize_seasons_checkbox, config, fs_vars, preview_vars,
                   batch>>

\* files_to_rename after the loop of process_files: a path is appended when
\* it is not yet in the list
RECURSIVE AddFiles(_, _)
AddFiles_Prepend(list, files) ==
    IF files = <<>> THEN list
    ELSE AddFiles(IF \E i \in 1..Len(list) : list[i] = Head(files)
                  THEN list ELSE <<Head(files)>> \o list,
                  Tail(files))
AddFiles(list, files) ==
    IF files = <<>> THEN list
    ELSE AddFiles(IF \E i \in 1..Len(list) : list[i] = Head(files)
                  THEN list ELSE Append(list, Head(files)),
                  Tail(files))

\* process_files(files): add_files or add_folder returned these files
process_files(files) ==
    /\ Idle
    /\ files_to_rename' = AddFiles(files_to_rename, files)
    /\ Len(files_to_rename') <= MaxFiles
    /\ UNCHANGED <<ui_vars, fs_vars, pc, batch>>
    /\ UpdatePreview

\* clear_files
clear_files ==
    /\ Idle
    /\ files_to_rename' = <<>>
    /\ UNCHANGED <<ui_vars, fs_vars, pc, batch>>
    /\ UpdatePreview

\* update_episodes_info(episodes_dict)
update_episodes_info(episodes_dict) ==
    /\ episodes_info' = episodes_dict
    /\ UNCHANGED <<selected_media_type, current_media_info, season_combo_count,
                   season_combo_current, detect_all_seasons, all_seasons_info,
                   files_to_rename, base_directory,
                   organize_seasons_checkbox, config, fs_vars, pc, batch>>
    /\ UpdatePreview

\* update_all_seasons_info(all_seasons_dict)
update_all_seasons_info(all_seasons_dict) ==
    /\ all_seasons_info' = all_seasons_dict
    /\ UNCHANGED <<selected_media_type, current_media_info, season_combo_count,
                   season_combo_current, detect_all_seasons, episodes_info,
                   files_to_rename, base_directory,
                   organize_seasons_checkbox, config, fs_vars, pc, batch>>
    /\ UpdatePreview

\* the event loop delivers the first posted finished signal
deliver_signal ==
    /\ EventLoop
    /\ signals # <<>>
    /\ signals' = Tail(signals)
    /\ UNCHANGED <<ep_fetcher, all_fetcher>>
    /\ LET sig == Head(signals)
       IN  IF sig.kind = "episodes"
           THEN update_episodes_info([series |-> sig.series, season |-> sig.n])
           ELSE update_all_seasons_info([series |-> sig.series, upto |-> sig.n])

\* SeasonEpisodesFetcher.run ends: self.finished.emit(episodes) posts the
\* signal to the GUI thread, whatever that thread is doing
episodes_fetched ==
    /\ pc # "crashed"
    /\ ep_fetcher # NoEpisodes
    /\ Len(signals) < MaxSignals
    /\ ep_fetcher' = NoEpisodes
    /\ \E r \in EpResults(ep_fetcher) : signals' = Append(signals, EpSignal(r))
    /\ UNCHANGED <<selected_media_type, current_media_info, season_combo_count,
                   season_combo_current, detect_all_seasons, episodes_info,
                   all_seasons_info, all_fetcher, files_to_rename,
                   base_directory, organize_seasons_checkbox, config, fs_vars,
                   preview_vars, pc, batch>>

\* AllSeasonsFetcher.run ends: self.finished.emit(all_episodes) posts the
\* signal to the GUI thread, whatever that thread is doing
all_seasons_fetched ==
    /\ pc # "crashed"
    /\ all_fetcher # NoSeasons
    /\ Len(signals) < MaxSignals
    /\ all_fetcher' = NoSeasons
    /\ \E r \in AllResults(all_fetcher) : signals' = Append(signals, AllSignal(r))
    /\ UNCHANGED <<selected_media_type, current_media_info, season_combo_count,
                   season_combo_current, detect_all_seasons, episodes_info,
                   all_seasons_info, ep_fetcher, files_to_rename,
                   base_directory, organize_seasons_checkbox, config, fs_vars,
                   preview_vars, pc, batch>>

\* select_media(item): the operator clicks a search result, which a search
\* started before toggle_media_type may have listed; in mode "tv" seasons_ok
\* says whether GET /tv/{id} gave number_of_seasons
select_media(id, seasons_ok) ==
    /\ Idle
    /\ current_media_info' =
          [id |-> id,
           number_of_seasons |->
              IF selected_media_type = "tv" /\ seasons_ok
              THEN MediaSeasons(id) ELSE 0]
    /\ UNCHANGED <<selected_media_type, detect_all_seasons, episodes_info,
                   all_seasons_info, files_to_rename, base_directory,
                   organize_seasons_checkbox, config, fs_vars, pc, batch>>
    /\ IF selected_media_type = "tv"
       THEN LET n == current_media_info'.number_of_seasons
                first == [series |-> id, season |-> 1]
            IN  /\ season_combo_count' = n
                /\ season_combo_current' = IF n > 0 THEN 1 ELSE None
                /\ ep_fetcher' = IF n > 0 THEN first ELSE ep_fetcher
                /\ all_fetcher' = IF detect_all_seasons /\ n > 0
                                  THEN [series |-> id, upto |-> n]
                                  ELSE all_fetcher
                /\ \E s1 \in (IF n > 0 THEN StopEpSignals(ep_fetcher) ELSE {<<>>}),
                      s2 \in (IF n > 0 /\ ~detect_all_seasons
                              THEN StopEpSignals(first) ELSE {<<>>}),
                      s3 \in (IF n > 0 /\ detect_all_seasons
                              THEN StopAllSignals(all_fetcher) ELSE {<<>>}) :
                      signals' = signals \o s1 \o s2 \o s3
                /\ Len(signals') <= MaxSignals
                /\ UNCHANGED preview_vars
       ELSE /\ UNCHANGED <<season_combo_count, season_combo_current, fetch_vars>>
            /\ UpdatePreview

\* select_media(item) for an item without data ("Buscando...", "No se
\* encontraron resultados."): line 1133 stores None and line 1136 raises
\* AttributeError; no sys.excepthook is installed, so PyQt5 ends the process
\* with qFatal when the exception leaves the slot
select_media_without_data ==
    /\ Idle
    /\ current_media_info' = NoMedia
    /\ pc' = "crashed"
    /\ UNCHANGED <<selected_media_type, season_combo_count, season_combo_current,
                   detect_all_seasons, episodes_info, all_seasons_info,
                   fetch_vars, files_to_rename, base_directory,
                   organize_seasons_checkbox, config, fs_vars, preview_vars,
                   batch>>

\* load_season_episodes: the operator picks another entry of season_combo;
\* without a selected medium the slot returns at line 1215
load_season_episodes(season) ==
    /\ Idle
    /\ selected_media_type = "tv"
    /\ ~detect_all_seasons
    /\ season \in 1..season_combo_count
    /\ season # season_combo_current
    /\ season_combo_current' = season
    /\ IF current_media_info = NoMedia
       THEN UNCHANGED <<ep_fetcher, signals>>
       ELSE /\ \E st \in StopEpSignals(ep_fetcher) : signals' = signals \o st
            /\ Len(signals') <= MaxSignals
            /\ ep_fetcher' = [series |-> current_media_info.id, season |-> season]
    /\ UNCHANGED <<selected_media_type, current_media_info, season_combo_count,
                   detect_all_seasons, episodes_info, all_seasons_info,
                   all_fetcher, files_to_rename, base_directory,
                   organize_seasons_checkbox, config, fs_vars, preview_vars,
                   pc, batch>>

\* lines 1004-1005: what the update_preview of on_preview_tab_changed(1)
\* leaves behind, given the preview it computed
TabChangedShows(pv) ==
    /\ UNCHANGED <<detect_all_seasons, all_fetcher, signals>>
    /\ new_filenames' = pv.names
    /\ preview_nums' = pv.nums
    /\ preview_tab' = TabAfterPreview(files_to_rename,
                           current_media_info, selected_media_type,
                           pv.nums, 1)
    /\ rename_button' = ButtonEnabled(files_to_rename,
                             current_media_info, pv.names)

\* lines 1008-1011: QMessageBox.information is shown, given the preview
InformationShown(pv) ==
    /\ ~HasEpisodes(selected_media_type, pv.nums)
    /\ files_to_rename # <<>>
    /\ ~detect_all_seasons
    /\ current_media_info # NoMedia

\* on_preview_tab_changed(1) when the media type is "tv", up to the message
\* box or to its end; box is the position at the message box
TabChangedToSeasons(box, end) ==
    /\ TabChangedShows(PreviewOf(files_to_rename, Ui))
    /\ pc' = IF InformationShown(PreviewOf(files_to_rename, Ui)) THEN box ELSE end

\* on_preview_tab_changed(index): the operator clicks the other preview tab
on_preview_tab_changed ==
    /\ Idle
    /\ selected_media_type = "tv"
    /\ UNCHANGED <<selected_media_type, current_media_info, season_combo_count,
                   season_combo_current, episodes_info, all_seasons_info,
                   ep_fetcher, files_to_rename, base_directory,
                   organize_seasons_checkbox, config, fs_vars, batch>>
    /\ IF preview_tab = 0
       THEN TabChangedToSeasons("tab_box", "idle")
       ELSE /\ preview_tab' = 0
            /\ UNCHANGED <<detect_all_seasons, all_fetcher, signals,
                           new_filenames, preview_nums, rename_button, pc>>

\* line 1014: the message box of on_preview_tab_changed is closed and
\* detect_all_seasons_checkbox.setChecked(True) runs toggle_detect_all_seasons
information_closed ==
    /\ pc \in {"tab_box", "finish_box"}
    /\ pc' = IF pc = "tab_box" THEN "idle" ELSE "summary"
    /\ UNCHANGED <<selected_media_type, current_media_info, season_combo_count,
                   season_combo_current, episodes_info, all_seasons_info,
                   ep_fetcher, files_to_rename, base_directory,
                   organize_seasons_checkbox, config, fs_vars, batch>>
    /\ DetectAllSeasonsSet(TRUE)

\* show_config_dialog up to dialog.exec_(): the dialog is open on the
\* config dict of the window
show_config_dialog ==
    /\ Idle
    /\ pc' = "config"
    /\ UNCHANGED <<ui_vars, files_to_rename, fs_vars, preview_vars, batch>>

\* ConfigDialog.update_tv_preview: the operator picks a series format, and
\* the dialog writes its index into the shared dict
update_tv_preview(index) ==
    /\ pc = "config"
    /\ index # config.tv_format
    /\ config' = [config EXCEPT !.tv_format = index]
    /\ UNCHANGED <<selected_media_type, current_media_info, season_combo_count,
                   season_combo_current, detect_all_seasons, episodes_info,
                   all_seasons_info, fetch_vars, files_to_rename,
                   base_directory, organize_seasons_checkbox, fs_vars,
                   preview_vars, pc, batch>>

\* ConfigDialog.update_movie_preview: the same for a movie format
update_movie_preview(index) ==
    /\ pc = "config"
    /\ index # config.movie_format
    /\ config' = [config EXCEPT !.movie_format = index]
    /\ UNCHANGED <<selected_media_type, current_media_info, season_combo_count,
                   season_combo_current, detect_all_seasons, episodes_info,
                   all_seasons_info, fetch_vars, files_to_rename,
                   base_directory, organize_seasons_checkbox, fs_vars,
                   preview_vars, pc, batch>>

\* lines 1725-1728: dialog.exec_() returned; get_config reads the two
\* checkboxes and update_preview runs only when the dialog was accepted
config_dialog_closed(accepted, organize_movies, download_posters) ==
    /\ pc = "config"
    /\ pc' = "idle"
    /\ config' = IF accepted
                 THEN [config EXCEPT !.organize_movies = organize_movies,
                                     !.download_posters = download_posters]
                 ELSE config
    /\ UNCHANGED <<selected_media_type, current_media_info, season_combo_count,
                   season_combo_current, detect_all_seasons, episodes_info,
                   all_seasons_info, fetch_vars, files_to_rename,
                   base_directory, organize_seasons_checkbox, fs_vars, batch>>
    /\ IF accepted THEN UpdatePreview ELSE UNCHANGED preview_vars

----------------------------------------------------------------------------
\* rename_files: the batch mover.  pc is "loop" while the for loop runs,
\* "summary" while the final message box is open, "aborted" while the message
\* box of a failed creation of the main folder is open.

\* the answers of QMessageBox.question
Responses == {"Yes", "No", "YesToAll", "NoToAll"}

\* what the filesystem does to the calls of one iteration: nothing raises
\* ("none"), os.makedirs raises ("makedirs"), the os.rename inside shutil.move
\* raises and the copy and the removal that follow succeed ("rename"), or
\* os.rename raises and shutil.move raises before the copy wrote anything
\* ("move"), after the target was opened ("move_truncated"), after a part was
\* written ("move_partial") or at the removal of the source ("move_copied")
Faults == {"none", "makedirs", "rename", "move", "move_copied", "move_truncated",
           "move_partial"}

\* a call of the filesystem raises in an iteration only while it has raised in
\* fewer than MaxFaults iterations of the batch
MaxFaults == 1
Failures(outcomes) == Cardinality({k \in DOMAIN outcomes : outcomes[k] = "failed"})
Copies(moves) == Cardinality({k \in DOMAIN moves : moves[k].rename_raised})

\* the directories after os.makedirs(path) returned
MakeDirs_Nothing(dirs, path) == dirs
MakeDirs(dirs, path) == dirs \cup Ancestors(path)

\* the answer that makes the loop skip the file
IsSkip_AlsoYes(response) == response \in {"No", "Yes"}
IsSkip(response) == response = "No"

\* lines 1550-1558: the loop is entered unless os.makedirs of the main folder
\* raised, in which case rename_files shows the error and returns
RunsLoop(create, makedirs_ok) == ~(create /\ ~makedirs_ok)

Name_poster == <<"p", "o", "s", "t", "e", "r", ".", "j", "p", "g">>
PosterContent == <<<<"j", "p", "g">>>>

\* how far download_poster gets: None when the request fails before the file
\* is opened, else the number of bytes copied before the stream raised (all of
\* them: the image is saved whole)
PosterOutcomes == {None} \cup (0..Len(PosterContent[1]))

\* the content of poster.jpg after open(poster_file_path, 'wb') and k bytes
PosterWritten(k) ==
    IF k = 0 THEN <<>> ELSE <<SubSeq(PosterContent[1], 1, k)>>

\* download_poster(poster_path, destination_folder): the files after it.  The
\* file is opened for writing, and so created or emptied, before the stream
\* is read, and every exception is caught.
download_poster(files, has_poster, destination_folder, written) ==
    IF has_poster /\ written # None
    THEN [p \in DOMAIN files \cup {Join(destination_folder, Name_poster)} |->
            IF p = Join(destination_folder, Name_poster)
            THEN PosterWritten(written)
            ELSE files[p]]
    ELSE files

\* lines 1508-1569: the checks, the main folder and its poster, the start of
\* the loop over zip(self.files_to_rename, self.new_filenames); without a
\* selected medium line 1532 raises and nothing is done
rename_start(makedirs_ok, written) ==
    /\ Idle
    /\ rename_button
    /\ files_to_rename # <<>>
    /\ new_filenames # <<>>
    /\ current_media_info # NoMedia
    /\ LET organize_seasons == organize_seasons_checkbox /\ selected_media_type = "tv"
           organize_movies == config.organize_movies /\ selected_media_type = "movie"
           use_main == base_directory # <<>> \/ organize_movies
           main_folder_path ==
               IF use_main
               THEN Join(RootDirectory,
                         MainFolderName(selected_media_type, current_media_info))
               ELSE RootDirectory
           create == use_main /\ ~Exists(main_folder_path)
       IN  /\ IF ~RunsLoop(create, makedirs_ok)
              THEN /\ pc' = "aborted"
                   /\ batch' = [BatchIdle EXCEPT !.result = "aborted",
                                                 !.n = Len(files_to_rename),
                                                 !.main_folder_path = main_folder_path,
                                                 !.fs0 = fs_files]
              ELSE /\ pc' = "loop"
                   /\ batch' = [BatchIdle EXCEPT
                                   !.i = 1,
                                   !.n = Min({Len(files_to_rename), Len(new_filenames)}),
                                   !.main_folder_path = main_folder_path,
                                   !.organize_seasons = organize_seasons,
                                   !.organize_movies = organize_movies,
                                   !.names = new_filenames,
                                   !.fs0 = fs_files]
           /\ fs_dirs' = IF create /\ makedirs_ok
                         THEN MakeDirs(fs_dirs, main_folder_path)
                         ELSE fs_dirs
           /\ fs_files' =
                 IF use_main /\ RunsLoop(create, makedirs_ok)
                    /\ config.download_posters
                 THEN download_poster(fs_files,
                                      MediaPoster(current_media_info.id),
                                      main_folder_path, written)
                 ELSE fs_files
    /\ UNCHANGED <<ui_vars, files_to_rename, preview_vars>>

\* error_files.append(...), lines 1617 and 1627
RecordError_Replace(error_files, old_path, reason) ==
    <<[path |-> old_path, reason |-> reason]>>
RecordError(error_files, old_path, reason) ==
    Append(error_files, [path |-> old_path, reason |-> reason])

\* how shutil.move(old_path, new_path) moves a file: it calls os.rename, and
\* only when os.rename raised OSError it copies the file to new_path and then
\* removes old_path
MoveMethod_AlwaysCopy(rename_raised) == "copy_delete"
MoveMethod(rename_raised) == IF rename_raised THEN "copy_delete" ELSE "rename"

\* the files after shutil.move(old_path, new_path) returned
Moved(files, old_path, new_path) ==
    [p \in (DOMAIN files \ {old_path}) \cup {new_path} |->
        IF p = new_path THEN files[old_path] ELSE files[p]]

\* how much of the content the copy inside shutil.move wrote to new_path
\* before shutil.move raised: None when new_path was not opened, otherwise
\* the length of the prefix written, the whole content when only the removal
\* of old_path raised
Written(fault, content) ==
    CASE fault = "move_truncated" -> {0}
      [] fault = "move_partial" -> 1..(Len(content) - 1)
      [] fault = "move_copied" -> {Len(content)}
      [] OTHER -> {None}

\* the files after shutil.move(old_path, new_path) raised with the first
\* done units of old_path written to new_path: old_path is removed only
\* after the copy returned, so it is still there
MoveRaised_SourceLost(files, old_path, new_path, done) ==
    [p \in DOMAIN files \ {old_path} |-> files[p]]
MoveRaised(files, old_path, new_path, done) ==
    IF done = None THEN files
    ELSE [p \in DOMAIN files \cup {new_path} |->
            IF p = new_path THEN SubSeq(files[old_path], 1, done) ELSE files[p]]

\* the index of the iteration after iteration i: the try statement is the
\* body of the for loop, so an exception ends the iteration and not the loop
NextIteration_Abort(i, n, raised) == IF raised THEN n + 1 ELSE i + 1
NextIteration(i, n, raised) == i + 1

\* lines 1571-1610 of an iteration whose target exists: rename_files opens
\* QMessageBox.question, whose event loop runs until the operator answers.
\* The target exists, so its directory does, and line 1586 created nothing;
\* lines 1589-1592 have already entered a season name in season_files.
rename_ask ==
    /\ pc = "loop"
    /\ batch.i <= batch.n
    /\ ~batch.asking
    /\ Conflict(files_to_rename[batch.i],
                NewPath(batch.main_folder_path, batch.names[batch.i],
                        batch.organize_seasons))
    /\ batch' = [batch EXCEPT
                    !.asking = TRUE,
                    !.season_files =
                        @ \/ SeasonDir(batch.main_folder_path,
                                       batch.names[batch.i],
                                       batch.organize_seasons) # <<>>]
    /\ UNCHANGED <<ui_vars, files_to_rename, preview_vars, fs_vars, pc>>

\* one iteration of the for loop, lines 1571-1629, from its start when the
\* target is free and from the operator's answer when it exists
rename_step(response, fault) ==
    /\ pc = "loop"
    /\ batch.i <= batch.n
    /\ Conflict(files_to_rename[batch.i],
                NewPath(batch.main_folder_path, batch.names[batch.i],
                        batch.organize_seasons)) => batch.asking
    /\ fault # "none"
          => Failures(batch.outcomes) + Copies(batch.moves) < MaxFaults
    /\ LET i == batch.i
           old_path == files_to_rename[i]
           new_name == batch.names[i]
           season_dir == SeasonDir(batch.main_folder_path, new_name,
                                   batch.organize_seasons)
           new_path == NewPath(batch.main_folder_path, new_name,
                               batch.organize_seasons)
           make_season == season_dir # <<>> /\ ~Exists(season_dir)
           season_fails == make_season /\ fault = "makedirs"
           dirs1 == IF make_season /\ ~season_fails
                    THEN MakeDirs(fs_dirs, season_dir) ELSE fs_dirs
           conflict == Conflict(old_path, new_path)
           skip == conflict /\ IsSkip(response)
           make_parent == Dirname(new_path) \notin dirs1
           parent_fails == make_parent /\ fault = "makedirs"
           dirs2 == IF make_parent /\ ~parent_fails
                    THEN MakeDirs(dirs1, Dirname(new_path)) ELSE dirs1
           rename_raised == fault \in {"rename", "move", "move_copied",
                                       "move_truncated", "move_partial"}
           copies == /\ old_path \in DOMAIN fs_files
                     /\ Dirname(new_path) \in dirs2
                     /\ old_path # new_path
           move_fails == \/ old_path \notin DOMAIN fs_files
                         \/ Dirname(new_path) \notin dirs2
                         \/ rename_raised /\ (fault # "rename" \/ ~copies)
           done == IF copies THEN Written(fault, fs_files[old_path]) ELSE {None}
           raised == season_fails \/ (~skip /\ (parent_fails \/ move_fails))
           asked == IF ~season_fails /\ conflict
                    THEN Append(batch.asked, [i |-> i, response |-> response])
                    ELSE batch.asked
           seen == batch.season_files \/ (season_dir # <<>> /\ ~season_fails)
           next == [batch EXCEPT !.i = NextIteration(i, batch.n, raised),
                                 !.asked = asked,
                                 !.asking = FALSE,
                                 !.season_files = seen]
       IN  IF season_fails
           THEN /\ batch' = [next EXCEPT
                               !.error_files = RecordError(@, old_path, "exception"),
                               !.outcomes = Append(@, "failed")]
                /\ UNCHANGED fs_vars
           ELSE IF skip
           THEN /\ batch' = [next EXCEPT
                               !.error_files = RecordError(@, old_path, "exists"),
                               !.outcomes = Append(@, "skipped")]
                /\ fs_dirs' = dirs1
                /\ UNCHANGED fs_files
           ELSE IF parent_fails
           THEN /\ batch' = [next EXCEPT
                               !.error_files = RecordError(@, old_path, "exception"),
                               !.outcomes = Append(@, "failed")]
                /\ fs_dirs' = dirs1
                /\ UNCHANGED fs_files
           ELSE IF move_fails
           THEN /\ batch' = [next EXCEPT
                               !.error_files = RecordError(@, old_path, "exception"),
                               !.outcomes = Append(@, "failed")]
                /\ fs_dirs' = dirs2
                /\ \E d \in done :
                      fs_files' = MoveRaised(fs_files, old_path, new_path, d)
           ELSE /\ batch' = [next EXCEPT
                               !.success_count = @ + 1,
                               !.outcomes = Append(@, "moved"),
                               !.moves = Append(@,
                                   [rename_raised |-> rename_raised,
                                    method |-> MoveMethod(rename_raised)])]
                /\ fs_dirs' = dirs2
                /\ fs_files' = Moved(fs_files, old_path, new_path)
    /\ UNCHANGED <<ui_vars, files_to_rename, preview_vars, pc>>

\* lines 1672-1690: which of the two final message boxes is shown
BatchResult_AnySuccess(success_count, total) ==
    IF success_count > 0 THEN "complete" ELSE "partial"
BatchResult(success_count, total) ==
    IF success_count = total THEN "complete" ELSE "partial"

\* lines 1631-1690 up to the final message box: the season view and the result
rename_finish ==
    /\ pc = "loop"
    /\ batch.i > batch.n
    /\ batch' = [batch EXCEPT !.result =
                    BatchResult(batch.success_count, Len(files_to_rename))]
    /\ UNCHANGED <<selected_media_type, current_media_info, season_combo_count,
                   season_combo_current, episodes_info, all_seasons_info,
                   ep_fetcher, files_to_rename, base_directory,
                   organize_seasons_checkbox, config, fs_vars>>
    /\ IF batch.season_files /\ batch.organize_seasons /\ preview_tab = 0
       THEN TabChangedToSeasons("finish_box", "summary")
       ELSE /\ pc' = "summary"
            /\ UNCHANGED <<detect_all_seasons, all_fetcher, signals, preview_vars>>

\* the final message box is closed: a complete run clears the lists
summary_closed ==
    /\ pc = "summary"
    /\ pc' = "idle"
    /\ batch' = BatchIdle
    /\ IF batch.result = "complete"
       THEN /\ files_to_rename' = <<>>
            /\ new_filenames' = <<>>
            /\ rename_button' = ButtonEnabled(<<>>, current_media_info, <<>>)
       ELSE UNCHANGED <<files_to_rename, new_filenames, rename_button>>
    /\ UNCHANGED <<ui_vars, fs_vars, preview_nums, preview_tab>>

\* the message box of the failed main folder is closed: rename_files returns
abort_closed ==
    /\ pc = "aborted"
    /\ pc' = "idle"
    /\ batch' = BatchIdle
    /\ UNCHANGED <<ui_vars, files_to_rename, preview_vars, fs_vars>>

----------------------------------------------------------------------------
\* The application

FileLists == {<<f>> : f \in SourceFiles}
                \cup {<<f, g>> : f \in SourceFiles, g \in SourceFiles}

\* the handlers of the operator's actions and of the worker signals
NextUI ==
    \/ \E d \in BaseDirs : select_base_directory(d)
    \/ organize_seasons_toggled
    \/ toggle_media_type
    \/ toggle_detect_all_seasons
    \/ \E fl \in FileLists : process_files(fl)
    \/ clear_files
    \/ \E id \in MediaIds, ok \in BOOLEAN : select_media(id, ok)
    \/ select_media_without_data
    \/ \E s \in 1..season_combo_count : load_season_episodes(s)
    \/ deliver_signal
    \/ episodes_fetched
    \/ all_seasons_fetched
    \/ on_preview_tab_changed
    \/ information_closed
    \/ show_config_dialog
    \/ \E t \in TvFormatChoices : update_tv_preview(t)
    \/ \E m \in MovieFormatChoices : update_movie_preview(m)
    \/ \E a \in BOOLEAN, o \in BOOLEAN, d \in BOOLEAN : config_dialog_closed(a, o, d)
    \/ closeEvent

\* rename_files
NextBatch ==
    \/ \E ok \in BOOLEAN, written \in PosterOutcomes : rename_start(ok, written)
    \/ rename_ask
    \/ \E r \in Responses, f \in Faults : rename_step(r, f)
    \/ rename_finish
    \/ information_closed
    \/ summary_closed
    \/ abort_closed

Next == NextUI \/ NextBatch

\* the whole application
Spec == Init /\ [][Next]_vars

----------------------------------------------------------------------------
\* The preview: the handlers that write or read what update_preview reads.
\* select_base_directory, organize_seasons_toggled and the organize_movies box
\* of the dialog change only what rename_files reads, and are left out.

PreviewMedia == {1, 3}
PreviewFiles == {File_1, File_4}
PreviewFileLists == {<<File_4>>, <<File_4, File_1>>}

NextPreview ==
    \/ toggle_media_type
    \/ toggle_detect_all_seasons
    \/ \E fl \in PreviewFileLists : process_files(fl)
    \/ clear_files
    \/ \E id \in PreviewMedia, ok \in BOOLEAN : select_media(id, ok)
    \/ select_media_without_data
    \/ \E s \in 1..season_combo_count : load_season_episodes(s)
    \/ deliver_signal
    \/ episodes_fetched
    \/ all_seasons_fetched
    \/ on_preview_tab_changed
    \/ information_closed
    \/ show_config_dialog
    \/ \E t \in TvFormatChoices : update_tv_preview(t)
    \/ \E m \in MovieFormatChoices : update_movie_preview(m)
    \/ \E a \in BOOLEAN :
          config_dialog_closed(a, config.organize_movies, config.download_posters)
    \/ closeEvent

SpecUI == Init /\ [][NextPreview]_vars

\* The selection: the handlers of the preview without the configuration
\* dialog, with the two series to select from and one file in the list
SelectMedia == {1, 2}

NextSelect ==
    \/ toggle_media_type
    \/ toggle_detect_all_seasons
    \/ /\ files_to_rename = <<>>
       /\ \E f \in PreviewFiles : process_files(<<f>>)
    \/ clear_files
    \/ \E id \in SelectMedia, ok \in BOOLEAN : select_media(id, ok)
    \/ select_media_without_data
    \/ \E s \in 1..season_combo_count : load_season_episodes(s)
    \/ deliver_signal
    \/ episodes_fetched
    \/ all_seasons_fetched
    \/ on_preview_tab_changed
    \/ information_closed
    \/ closeEvent

SpecSelect == Init /\ [][NextSelect]_vars

----------------------------------------------------------------------------
\* Detection: a series is selected and its metadata has arrived, the list is
\* empty, and the operator adds one file of any generated name.

InitDetect ==
    /\ \E id \in SeriesIds, detect \in BOOLEAN, ok \in BOOLEAN :
          /\ current_media_info = [id |-> id, number_of_seasons |-> MediaSeasons(id)]
          /\ detect_all_seasons = detect
          /\ season_combo_current \in 1..MediaSeasons(id)
          /\ episodes_info = [series |-> id, season |-> season_combo_current]
          /\ all_seasons_info = IF detect /\ ok
                                THEN [series |-> id, upto |-> MediaSeasons(id)]
                                ELSE NoSeasons
          /\ season_combo_count = MediaSeasons(id)
    /\ selected_media_type = "tv"
    /\ ep_fetcher = NoEpisodes
    /\ all_fetcher = NoSeasons
    /\ signals = <<>>
    /\ files_to_rename = <<>>
    /\ new_filenames = <<>>
    /\ preview_nums = <<>>
    /\ rename_button = FALSE
    /\ base_directory = <<>>
    /\ organize_seasons_checkbox = TRUE
    /\ config = DefaultConfig
    /\ preview_tab = 0
    /\ pc = "idle"
    /\ batch = BatchIdle
    /\ fs_files = InitFiles({})
    /\ fs_dirs = InitDirs({})

NextDetect ==
    /\ files_to_rename = <<>>
    /\ \E f \in GenPaths : process_files(<<f>>)

SpecDetect == InitDetect /\ [][NextDetect]_vars

----------------------------------------------------------------------------
\* The batch: a medium is selected, its metadata has arrived, the preview of
\* the operator's files is shown and the operator presses the rename button.

\* the selection before the batch: series 1 with season 1 chosen ("single")
\* or with all its seasons detected ("auto"), series 1 when GET /tv/{id} gave
\* no number_of_seasons and season_combo is empty ("unlisted"), or the movie
BatchModes == {"single", "auto", "unlisted", "movie"}

BatchFileLists ==
    {SelectSeq(SourceOrder, LAMBDA f : f \in S) :
        S \in {T \in SUBSET SourceFiles : T # {} /\ Cardinality(T) <= MaxFiles}}

\* the window after the update_preview that followed the last change
PreviewShown(pv) ==
    /\ new_filenames = pv.names
    /\ preview_nums = pv.nums
    /\ preview_tab = TabAfterPreview(files_to_rename, current_media_info,
                                     selected_media_type, preview_nums, 0)
    /\ rename_button = ButtonEnabled(files_to_rename, current_media_info,
                                     new_filenames)


InitBatch ==
    /\ \E mode \in BatchModes :
          /\ selected_media_type = IF mode = "movie" THEN "movie" ELSE "tv"
          /\ current_media_info =
                CASE mode = "movie" -> [id |-> 3, number_of_seasons |-> 0]
                  [] mode = "unlisted" -> [id |-> 1, number_of_seasons |-> 0]
                  [] OTHER -> [id |-> 1, number_of_seasons |-> MediaSeasons(1)]
          /\ season_combo_count = current_media_info.number_of_seasons
          /\ season_combo_current = IF season_combo_count = 0 THEN None ELSE 1
          /\ detect_all_seasons = (mode = "auto")
          /\ episodes_info = IF season_combo_count = 0 THEN NoEpisodes
                             ELSE [series |-> 1, season |-> 1]
          /\ all_seasons_info = IF mode = "auto"
                                THEN [series |-> 1, upto |-> MediaSeasons(1)]
                                ELSE NoSeasons
          /\ organize_seasons_checkbox \in (IF mode = "movie" THEN {TRUE} ELSE BOOLEAN)
          /\ \E o \in (IF mode = "movie" THEN BOOLEAN ELSE {TRUE}) :
                config = [DefaultConfig EXCEPT !.organize_movies = o]
    /\ ep_fetcher = NoEpisodes
    /\ all_fetcher = NoSeasons
    /\ signals = <<>>
    /\ base_directory \in {<<>>} \cup BaseDirs
    /\ files_to_rename \in BatchFileLists
    /\ PreviewShown(PreviewOf(files_to_rename, Ui))
    /\ pc = "idle"
    /\ batch = BatchIdle
    /\ fs_files = InitFiles(PreTargets)
    /\ fs_dirs = InitDirs(PreTargets)

SpecBatch == InitBatch /\ [][NextBatch]_vars

----------------------------------------------------------------------------
\* A session: series 1 is selected with season 1, the operator adds files in
\* any order while nothing has been renamed yet, and presses the rename button.

InitRun ==
    /\ selected_media_type = "tv"
    /\ current_media_info = [id |-> 1, number_of_seasons |-> MediaSeasons(1)]
    /\ season_combo_count = MediaSeasons(1)
    /\ season_combo_current = 1
    /\ detect_all_seasons = FALSE
    /\ episodes_info = [series |-> 1, season |-> 1]
    /\ all_seasons_info = NoSeasons
    /\ ep_fetcher = NoEpisodes
    /\ all_fetcher = NoSeasons
    /\ signals = <<>>
    /\ files_to_rename = <<>>
    /\ new_filenames = <<>>
    /\ preview_nums = <<>>
    /\ rename_button = FALSE
    /\ base_directory = <<>>
    /\ organize_seasons_checkbox \in BOOLEAN
    /\ config = DefaultConfig
    /\ preview_tab = 0
    /\ pc = "idle"
    /\ batch = BatchIdle
    /\ fs_files = InitFiles(PreTargets)
    /\ fs_dirs = InitDirs(PreTargets)

\* what the operator hands to process_files in one go
RunFiles == {File_1, File_2, File_4}
RunFileLists ==
    {<<f>> : f \in RunFiles} \cup {<<f, g>> : f \in RunFiles, g \in RunFiles}

\* no MAIN directory is created in these runs, so none is aborted
NextRun ==
    \/ /\ fs_files = InitFiles(PreTargets)
       /\ \E fl \in RunFileLists : process_files(fl)
    \/ \E ok \in BOOLEAN, written \in PosterOutcomes : rename_start(ok, written)
    \/ rename_ask
    \/ \E r \in Responses, f \in Faults : rename_step(r, f)
    \/ rename_finish
    \/ summary_closed

SpecRun == InitRun /\ [][NextRun]_vars

----------------------------------------------------------------------------
\* Rendering: a series with many seasons (or the movie) is selected, any of
\* the configured formats is chosen, the list is empty, and the operator adds
\* one file whose name shows small and large numbers, or none.

\* the series with many seasons, as select_media stores it
LongSeries == [id |-> 4, number_of_seasons |-> MediaSeasons(4)]

RenderNumbers == {3, 7, 12, 100}

RenderNames ==
    {<<"S">> \o IntToStr(a) \o <<"E">> \o IntToStr(b) \o Ext_mkv :
        a \in RenderNumbers, b \in RenderNumbers}
      \cup {<<"E">> \o IntToStr(b) \o Ext_mkv : b \in RenderNumbers}
      \cup {Name_abc}

RenderPaths == {<<Dir_d, n>> : n \in RenderNames}

InitRender ==
    /\ \E mode \in BatchModes :
          /\ selected_media_type = IF mode = "movie" THEN "movie" ELSE "tv"
          /\ current_media_info =
                CASE mode = "movie" -> [id |-> 3, number_of_seasons |-> 0]
                  [] mode = "unlisted" -> [LongSeries EXCEPT !.number_of_seasons = 0]
                  [] OTHER -> LongSeries
          /\ season_combo_count = current_media_info.number_of_seasons
          /\ season_combo_current \in
                (CASE mode = "single" -> RenderNumbers
                   [] mode = "auto" -> {1}
                   [] OTHER -> {None})
          /\ detect_all_seasons = (mode = "auto")
          /\ episodes_info =
                IF season_combo_count = 0 THEN NoEpisodes
                ELSE [series |-> LongSeries.id, season |-> season_combo_current]
          /\ all_seasons_info =
                IF mode = "auto"
                THEN [series |-> LongSeries.id, upto |-> LongSeries.number_of_seasons]
                ELSE NoSeasons
          /\ \E t \in 0..3 :
                config = IF mode = "movie"
                         THEN [DefaultConfig EXCEPT !.movie_format = t]
                         ELSE [DefaultConfig EXCEPT !.tv_format = t]
    /\ ep_fetcher = NoEpisodes
    /\ all_fetcher = NoSeasons
    /\ signals = <<>>
    /\ files_to_rename = <<>>
    /\ new_filenames = <<>>
    /\ preview_nums = <<>>
    /\ rename_button = FALSE
    /\ base_directory = <<>>
    /\ organize_seasons_checkbox = TRUE
    /\ preview_tab = 0
    /\ pc = "idle"
    /\ batch = BatchIdle
    /\ fs_files = InitFiles({})
    /\ fs_dirs = InitDirs({})

NextRender ==
    /\ files_to_rename = <<>>
    /\ \E f \in RenderPaths : process_files(<<f>>)

SpecRender == InitRender /\ [][NextRender]_vars

----------------------------------------------------------------------------
\* Rendering through str.format: update_preview computed with the format
\* string that config selects from config["tv_formats"] or
\* config["movie_formats"], and with the exceptions str.format can raise.

\* lines 1361-1362, 1449-1450 and 1479-1480: format_str
ConfiguredTvFormat(cfg) == TvFormats[cfg.tv_format + 1]
ConfiguredMovieFormat(cfg) == MovieFormats[cfg.movie_format + 1]

\* the entry of the loop of update_preview for a name_part
EntryOfPart(part, file_name, season, episode) ==
    IF part.exc # "none"
    THEN [exc |-> part.exc, name |-> <<>>, season |-> None, episode |-> None]
    ELSE [exc |-> "none", name |-> part.text \o Dot \o Extension(file_name),
          season |-> season, episode |-> episode]

\* generate_tv_filename under format_str
SingleWithFormat(format_str, file_name, title, season_number, episode_number, ep_dict) ==
    IF episode_number = None
    THEN [exc |-> "none",
          name |-> RenderEpisode(file_name, title, season_number, None, ep_dict, 0).name,
          season |-> season_number, episode |-> None]
    ELSE EntryOfPart(TvNamePart(format_str, title, season_number, episode_number,
                                DictGet(ep_dict, episode_number)),
                     file_name, season_number, episode_number)

\* generate_tv_filename_auto_season under format_str
AutoWithFormat(format_str, file_name, parsed, title, all_dict) ==
    IF parsed[1] = None \/ parsed[2] = None \/ ~InSeasons(parsed[1], all_dict)
    THEN [exc |-> "none", name |-> file_name, season |-> None, episode |-> None]
    ELSE EntryOfPart(TvNamePart(format_str, title, parsed[1], parsed[2],
                                DictGet(all_dict[parsed[1]], parsed[2])),
                     file_name, parsed[1], parsed[2])

\* one iteration of the loop of update_preview, lines 1279-1301
EntryWithFormat(file_path, ui) ==
    LET file_name == Basename(file_path)
        title == MediaTitle(ui.mtype, ui.media.id)
    IN  IF ui.mtype = "tv"
        THEN IF ui.detect
             THEN AutoWithFormat(ConfiguredTvFormat(ui.cfg), file_name,
                                 AutoParse(file_path), title,
                                 AllSeasonsDict(ui.all_info))
             ELSE LET season_number ==
                          IF ui.combo_count > 0 THEN ui.combo_current ELSE None
                  IN  IF season_number = None
                      THEN [exc |-> "none", name |-> file_name,
                            season |-> None, episode |-> None]
                      ELSE SingleWithFormat(ConfiguredTvFormat(ui.cfg), file_name,
                                            title, season_number,
                                            SingleSeasonEpisode(file_name),
                                            EpisodesDict(ui.ep_info))
        ELSE EntryOfPart(MovieNamePart(ConfiguredMovieFormat(ui.cfg), title,
                                       MediaDate(ui.mtype, ui.media.id)),
                         file_name, None, None)

\* the entries of the loop of update_preview, in the order of files_to_rename
EntriesWithFormat(files, ui) ==
    [i \in 1..Len(files) |-> EntryWithFormat(files[i], ui)]

\* the index of the first entry whose rendering raised, 0 when none did
FirstRaised(es) == FirstMatch({i \in 1..Len(es) : es[i].exc # "none"})

\* update_preview when the other variables have their primed values and the
\* loop gives the entries es: the preview is shown, or an exception leaves
\* update_preview and the slot after line 1264 emptied new_filenames and the
\* loop appended the names before it, and PyQt5 ends the process
ShowEntries(es) ==
    IF files_to_rename' = <<>> \/ current_media_info' = NoMedia
    THEN /\ pc' = pc
         /\ ShowPreview([names |-> <<>>, nums |-> <<>>])
    ELSE IF FirstRaised(es) # 0
    THEN /\ pc' = "crashed"
         /\ new_filenames' = [i \in 1..(FirstRaised(es) - 1) |-> es[i].name]
         /\ UNCHANGED <<preview_nums, preview_tab, rename_button>>
    ELSE /\ pc' = pc
         /\ ShowPreview(PreviewLists(es))

\* process_files(files), its update_preview computed through str.format
process_files_str_format(files) ==
    /\ Idle
    /\ files_to_rename' = AddFiles(files_to_rename, files)
    /\ Len(files_to_rename') <= MaxFiles
    /\ UNCHANGED <<ui_vars, fs_vars, batch>>
    /\ ShowEntries(EntriesWithFormat(files_to_rename', Ui))

NextFormat ==
    /\ files_to_rename = <<>>
    /\ \E f \in RenderPaths : process_files_str_format(<<f>>)

SpecFormat == InitRender /\ [][NextFormat]_vars

----------------------------------------------------------------------------
\* The main folder: a series with or without a first_air_date, or the movie,
\* is selected, posters are downloaded, a base directory is chosen or not, the
\* files of the list lie in one directory or in two, and the operator presses
\* the rename button.

MainFileLists == {<<File_2, File_1>>, <<File_2, File_4>>, <<File_4>>}

InitMain ==
    /\ \E id \in {1, 2, 3}, seasons_ok \in BOOLEAN :
          /\ seasons_ok \/ id = 2
          /\ selected_media_type = IF id \in MovieIds THEN "movie" ELSE "tv"
          /\ current_media_info =
                [id |-> id,
                 number_of_seasons |-> IF seasons_ok THEN MediaSeasons(id) ELSE 0]
          /\ season_combo_count = current_media_info.number_of_seasons
          /\ season_combo_current = IF season_combo_count = 0 THEN None ELSE 1
          /\ episodes_info = IF season_combo_count = 0 THEN NoEpisodes
                             ELSE [series |-> id, season |-> 1]
          /\ organize_seasons_checkbox \in (IF id \in MovieIds THEN {TRUE} ELSE BOOLEAN)
          /\ \E o \in (IF id \in MovieIds THEN BOOLEAN ELSE {TRUE}) :
                config = [DefaultConfig EXCEPT !.organize_movies = o,
                                               !.download_posters = TRUE]
    /\ detect_all_seasons = FALSE
    /\ all_seasons_info = NoSeasons
    /\ ep_fetcher = NoEpisodes
    /\ all_fetcher = NoSeasons
    /\ signals = <<>>
    /\ base_directory \in {<<>>} \cup BaseDirs
    /\ files_to_rename \in MainFileLists
    /\ PreviewShown(PreviewOf(files_to_rename, Ui))
    /\ pc = "idle"
    /\ batch = BatchIdle
    /\ fs_files = InitFiles(PreTargets)
    /\ fs_dirs = InitDirs(PreTargets)

SpecMain == InitMain /\ [][NextBatch]_vars

----------------------------------------------------------------------------
\* Properties

Last(seq) == seq[Len(seq)]
AllRemaining == {"YesToAll", "NoToAll"}

\* the iteration of the for loop for file batch.i has just run
Iterated == pc = "loop" /\ Len(batch'.outcomes) = Len(batch.outcomes) + 1

\* the operator was asked about a conflict in the iteration that has just run
Consulted == pc = "loop" /\ Len(batch'.asked) = Len(batch.asked) + 1

\* the source paths whose disposition is not "moved", in list order
NotMoved(outcomes, files) ==
    LET idx == SelectSeq([i \in 1..Len(outcomes) |-> i],
                         LAMBDA i : outcomes[i] # "moved")
    IN  [k \in 1..Len(idx) |-> files[idx[k]]]

\* C1: once the operator has answered a conflict with overwrite-all-remaining
\* or skip-all-remaining, no later conflict of the same batch is put to the
\* operator: an "-all" answer is the last answer of the batch.
C1_StickyDecision ==
    \A k \in DOMAIN batch.asked : \A l \in DOMAIN batch.asked :
        k < l => batch.asked[k].response \notin AllRemaining

\* C2: when the operator has chosen skip-all-remaining, the file of that
\* conflict and every later conflicting file is recorded as a failure "target
\* already exists" and nothing is written to the filesystem for it; the batch
\* then ends as a partial failure with fewer successes than files.
C2_SkipAllRemaining ==
    [][/\ (Consulted /\ \E k \in DOMAIN batch'.asked :
                           batch'.asked[k].response = "NoToAll")
            => /\ Last(batch'.outcomes) = "skipped"
               /\ Last(batch'.error_files) =
                     [path |-> files_to_rename[batch.i], reason |-> "exists"]
               /\ fs_files' = fs_files
       /\ (pc' = "summary" /\ \E k \in DOMAIN batch.asked :
                                 batch.asked[k].response = "NoToAll")
            => /\ batch'.result = "partial"
               /\ batch'.success_count < Len(files_to_rename)]_vars

\* the target path of file j of the batch that has run
TargetOfFile(j) ==
    NewPath(batch'.main_folder_path, batch'.names[j], batch'.organize_seasons)

\* C3 (as stated): an iteration that ends in a skip or in a failure (of the
\* creation of a directory or of the move) leaves the source file where it
\* was, with the content it had; when the batch has ended, every file that
\* was at its path when the batch started and is not counted as a success is
\* still at that path with the same content.
C3_SourceKept ==
    [][/\ (Iterated /\ Last(batch'.outcomes) # "moved"
                    /\ files_to_rename[batch.i] \in DOMAIN fs_files)
            => /\ files_to_rename[batch.i] \in DOMAIN fs_files'
               /\ fs_files'[files_to_rename[batch.i]]
                     = fs_files[files_to_rename[batch.i]]
       /\ pc' = "summary"
            => \A i \in DOMAIN batch'.outcomes :
                  (batch'.outcomes[i] # "moved"
                      /\ files_to_rename[i] \in DOMAIN batch'.fs0)
                  => /\ files_to_rename[i] \in DOMAIN fs_files'
                     /\ fs_files'[files_to_rename[i]]
                           = batch'.fs0[files_to_rename[i]]]_vars

\* C3 (amended): an iteration that ends in a skip or in a failure leaves the
\* source file of that iteration where it was, with the content it had; when
\* the batch has ended, every file that was at its path when the batch
\* started and is not counted as a success is still at that path, and has
\* the same content unless that path is the target of another file of the
\* batch, whose move was attempted after the operator was asked about the
\* conflict and gave another answer than No.
C3_SourceKeptUnlessTarget ==
    [][/\ (Iterated /\ Last(batch'.outcomes) # "moved"
                    /\ files_to_rename[batch.i] \in DOMAIN fs_files)
            => /\ files_to_rename[batch.i] \in DOMAIN fs_files'
               /\ fs_files'[files_to_rename[batch.i]]
                     = fs_files[files_to_rename[batch.i]]
       /\ pc' = "summary"
            => \A i \in DOMAIN batch'.outcomes :
                  (batch'.outcomes[i] # "moved"
                      /\ files_to_rename[i] \in DOMAIN batch'.fs0)
                  => /\ files_to_rename[i] \in DOMAIN fs_files'
                     /\ \/ fs_files'[files_to_rename[i]]
                              = batch'.fs0[files_to_rename[i]]
                        \/ \E j \in DOMAIN batch'.outcomes \ {i} :
                              /\ TargetOfFile(j) = files_to_rename[i]
                              /\ batch'.outcomes[j] # "skipped"
                              /\ \E k \in DOMAIN batch'.asked :
                                    /\ batch'.asked[k].i = j
                                    /\ batch'.asked[k].response # "No"]_vars

\* a batch ended with a skipped file and a file whose move raised after the
\* copy was made, both still at their paths
C3_Witness ==
    /\ pc = "summary"
    /\ \E i \in DOMAIN batch.outcomes : \E j \in DOMAIN batch.outcomes :
          /\ batch.outcomes[i] = "skipped"
          /\ batch.outcomes[j] = "failed"
          /\ files_to_rename[i] \in DOMAIN fs_files
          /\ files_to_rename[j] \in DOMAIN fs_files
          /\ \E p \in DOMAIN fs_files :
                p # files_to_rename[j] /\ fs_files[p] = files_to_rename[j]

\* C4: an iteration in which creating a directory or moving the file raised
\* adds one failure, for the file of that iteration, to the failures recorded
\* so far, changes no count of success, and is followed by the iteration of
\* the next file: when the summary is shown every file has been attempted.
C4_FailureIsPerFile ==
    [][/\ (Iterated /\ Last(batch'.outcomes) = "failed")
            => /\ batch'.error_files =
                     Append(batch.error_files,
                            [path |-> files_to_rename[batch.i],
                             reason |-> "exception"])
               /\ batch'.success_count = batch.success_count
               /\ SubSeq(batch'.outcomes, 1, Len(batch.outcomes)) = batch.outcomes
               /\ batch'.i = batch.i + 1
               /\ pc' = "loop"
       /\ pc' = "summary" => Len(batch'.outcomes) = Len(files_to_rename)]_vars

\* the first file of a batch failed and a later file was moved
C4_Witness ==
    /\ pc = "summary"
    /\ Len(batch.outcomes) >= 2
    /\ batch.outcomes[1] = "failed"
    /\ Last(batch.outcomes) = "moved"
    /\ Len(batch.error_files) = 1

\* C5 as stated: a run that has ended has attempted every file and ended with
\* a Complete or PartialFailure summary.
C5_AlwaysSummary ==
    pc \in {"summary", "aborted"}
        => /\ batch.result \in {"complete", "partial"}
           /\ Len(batch.outcomes) = Len(files_to_rename)

\* C6: while the loop runs and when it has ended, the files attempted so far
\* have one disposition each: the successes counted are the files moved, the
\* failures recorded are the other files, one entry each in list order, and
\* at the end of the loop their sum is the number of files.
C6_OneDispositionPerFile ==
    pc \in {"loop", "summary"}
        => /\ batch.success_count =
                 Cardinality({i \in DOMAIN batch.outcomes : batch.outcomes[i] = "moved"})
           /\ [k \in DOMAIN batch.error_files |-> batch.error_files[k].path]
                 = NotMoved(batch.outcomes, files_to_rename)
           /\ batch.success_count + Len(batch.error_files) = Len(batch.outcomes)
           /\ (pc = "summary" \/ batch.i > batch.n)
                 => batch.success_count + Len(batch.error_files)
                       = Len(files_to_rename)

\* a loop ended with a file moved, a file skipped and a file failed, or with
\* as many of these as the list has files
C6_Witness ==
    /\ pc = "loop"
    /\ batch.i > batch.n
    /\ Len(batch.error_files) >= 2
    /\ batch.success_count + Len(batch.error_files) = MaxFiles
    /\ \E k \in DOMAIN batch.error_files : batch.error_files[k].reason = "exists"
    /\ \E k \in DOMAIN batch.error_files : batch.error_files[k].reason = "exception"

\* C7: in auto-detect mode a file whose parsed season is not a key of
\* all_seasons_info gets the pair (None, None) and its original filename.
C7_UnknownSeasonGate ==
    (detect_all_seasons /\ selected_media_type = "tv")
        => \A i \in DOMAIN new_filenames :
              (/\ AutoParse(files_to_rename[i])[1] # None
               /\ AutoParse(files_to_rename[i])[1]
                     \notin DOMAIN AllSeasonsDict(all_seasons_info))
              => /\ preview_nums[i] = <<None, None>>
                 /\ new_filenames[i] = Basename(files_to_rename[i])

\* a season and an episode were parsed, seasons are known, this one is not
C7_Witness ==
    /\ detect_all_seasons
    /\ all_seasons_info # NoSeasons
    /\ \E i \in DOMAIN new_filenames :
          /\ AutoParse(files_to_rename[i])[1] # None
          /\ AutoParse(files_to_rename[i])[2] # None
          /\ AutoParse(files_to_rename[i])[1]
                \notin DOMAIN AllSeasonsDict(all_seasons_info)
          /\ new_filenames[i] = Basename(files_to_rename[i])

\* C8: with organize-seasons set, a file whose detection failed has its
\* original filename as rendered name and, once moved, lies directly in the
\* main folder of the batch.
C8_UndetectedStaysInMain ==
    (pc \in {"loop", "summary"} /\ batch.organize_seasons)
        => \A i \in DOMAIN batch.outcomes :
              (preview_nums[i][1] = None \/ preview_nums[i][2] = None)
              => /\ new_filenames[i] = Basename(files_to_rename[i])
                 /\ batch.outcomes[i] = "moved"
                       => \A p \in DOMAIN fs_files :
                             fs_files[p] = files_to_rename[i]
                                => Dirname(p) = batch.main_folder_path

\* the steps in which update_preview is called: the handlers that end with
\* the call, select_media for a movie, on_preview_tab_changed to the season
\* tab, and toggle_detect_all_seasons when a medium is selected and it does
\* not load the seasons instead
PreviewUpdated ==
    \/ \E fl \in PreviewFileLists : process_files(fl)
    \/ clear_files
    \/ deliver_signal
    \/ config_dialog_closed(TRUE, config.organize_movies, config.download_posters)
    \/ /\ Idle /\ selected_media_type = "movie"
       /\ \E id \in MovieIds, ok \in BOOLEAN : select_media(id, ok)
    \/ /\ preview_tab = 0
       /\ on_preview_tab_changed
    \/ /\ current_media_info # NoMedia
       /\ detect_all_seasons' => all_seasons_info # NoSeasons
       /\ toggle_detect_all_seasons \/ information_closed

\* C9 as stated: after every call of update_preview new_filenames is as long
\* as files_to_rename and its i-th entry is the rendering of the i-th file.
C9_SameLengthAlways ==
    [][PreviewUpdated
         => /\ Len(new_filenames') = Len(files_to_rename')
            /\ \A i \in DOMAIN new_filenames' :
                  Extension(new_filenames'[i])
                     = Extension(Basename(files_to_rename'[i]))]_vars

\* C9 amended: after a call of update_preview new_filenames is empty when
\* there is no file or no selected medium; otherwise it is as long as
\* files_to_rename, and its i-th entry is the rendering of the i-th file, with
\* that file's extension.
C9_PreviewMatchesFiles ==
    [][PreviewUpdated
         => IF files_to_rename' = <<>> \/ current_media_info' = NoMedia
            THEN new_filenames' = <<>>
            ELSE /\ Len(new_filenames') = Len(files_to_rename')
                 /\ \A i \in DOMAIN new_filenames' :
                       /\ Extension(new_filenames'[i])
                             = Extension(Basename(files_to_rename'[i]))
                       /\ new_filenames'[i] =
                             PreviewEntry(files_to_rename'[i], Ui').name]_vars

\* two files with different extensions are rendered for a selected series
C9_Witness ==
    /\ Len(files_to_rename) = 2
    /\ Len(new_filenames) = 2
    /\ current_media_info # NoMedia
    /\ selected_media_type = "tv"
    /\ Extension(new_filenames[1]) # Extension(new_filenames[2])
    /\ new_filenames[1] # Basename(files_to_rename[1])

\* C10: the (season, episode) pair of every file has both values or neither.
C10_PairComplete ==
    \A i \in DOMAIN preview_nums :
        (preview_nums[i][1] = None) <=> (preview_nums[i][2] = None)

\* position of a path in a list without duplicates, 0 when it is not there
IndexOf(list, x) ==
    IF \E k \in 1..Len(list) : list[k] = x
    THEN CHOOSE k \in 1..Len(list) : list[k] = x
    ELSE 0

\* the paths of fl come in list in the order of their first occurrence in fl
InOrderOfAdding(list, fl) ==
    \A a \in 1..Len(fl) : \A b \in 1..Len(fl) :
        (/\ a < b
         /\ \A c \in 1..(a - 1) : fl[c] # fl[a]
         /\ IndexOf(list, fl[a]) # 0
         /\ IndexOf(list, fl[b]) # 0
         /\ fl[a] # fl[b])
        => IndexOf(list, fl[a]) < IndexOf(list, fl[b])

\* C11: the files added by the operator are put behind the files already in
\* the list, in the order in which they were handed over; an iteration of the
\* batch works on the file that follows the files already attempted, appends
\* its disposition, and touches no other source file of the list; the
\* failures recorded are in the relative order of their files in the list.
C11_InListOrder ==
    [][/\ \A fl \in RunFileLists :
            process_files(fl)
               => /\ SubSeq(files_to_rename', 1, Len(files_to_rename))
                        = files_to_rename
                  /\ \A k \in 1..Len(fl) : IndexOf(files_to_rename', fl[k]) # 0
                  /\ InOrderOfAdding(
                        SubSeq(files_to_rename', Len(files_to_rename) + 1,
                               Len(files_to_rename')), fl)
       /\ Iterated
            => /\ batch.i = Len(batch.outcomes) + 1
               /\ batch'.i = batch.i + 1
               /\ SubSeq(batch'.outcomes, 1, Len(batch.outcomes)) = batch.outcomes
               /\ Len(batch'.error_files) - Len(batch.error_files) \in {0, 1}
               /\ Len(batch'.error_files) > Len(batch.error_files)
                     => Last(batch'.error_files).path = files_to_rename[batch.i]
               /\ \A j \in 1..Len(files_to_rename) :
                     (j # batch.i /\ files_to_rename[j] \in DOMAIN fs_files)
                     => /\ files_to_rename[j] \in DOMAIN fs_files'
                        /\ fs_files'[files_to_rename[j]] = fs_files[files_to_rename[j]]
       /\ \A k \in DOMAIN batch'.error_files : \A l \in DOMAIN batch'.error_files :
             k < l => IndexOf(files_to_rename', batch'.error_files[k].path)
                         < IndexOf(files_to_rename', batch'.error_files[l].path)]_vars

\* the operator added File_2 before File_1, and both failed in that order
C11_Witness ==
    /\ pc = "summary"
    /\ files_to_rename = <<File_2, File_1>>
    /\ Len(batch.error_files) = 2
    /\ batch.error_files[1].path = File_2
    /\ batch.error_files[2].path = File_1

\* C12: when the summary is shown the result is "complete" exactly when
\* every file of the list has the disposition "moved", which is when the
\* count of successes is the length of the list; otherwise it is "partial"
\* and the failure list has exactly one entry for each file that was skipped
\* or failed, and at least one.
C12_CompleteIffAllMoved ==
    pc = "summary"
        => /\ batch.result = "complete"
                 <=> /\ Len(batch.outcomes) = Len(files_to_rename)
                     /\ \A i \in DOMAIN batch.outcomes : batch.outcomes[i] = "moved"
           /\ batch.result = "complete"
                 <=> batch.success_count = Len(files_to_rename)
           /\ batch.result # "complete"
                 => /\ batch.result = "partial"
                    /\ Len(batch.error_files) >= 1
                    /\ Len(batch.error_files) =
                          Cardinality({i \in DOMAIN batch.outcomes :
                                          batch.outcomes[i] \in {"skipped", "failed"}})
                    /\ \A i \in DOMAIN batch.outcomes :
                          batch.outcomes[i] \in {"skipped", "failed"}
                          => \E k \in DOMAIN batch.error_files :
                                batch.error_files[k].path = files_to_rename[i]

\* a run in which a file was moved and another was not ended as partial
C12_Witness ==
    /\ pc = "summary"
    /\ batch.result = "partial"
    /\ batch.success_count >= 1
    /\ Len(batch.error_files) >= 1

\* the target path of the file the loop is at
TargetOfCurrent ==
    NewPath(batch.main_folder_path, new_filenames[batch.i], batch.organize_seasons)

\* the target of the file the loop is at exists and is not its source
ConflictOfCurrent ==
    Exists(TargetOfCurrent) /\ files_to_rename[batch.i] # TargetOfCurrent

\* C13: in an iteration the operator is asked exactly when the target path
\* exists and differs from the source path.  When the filesystem raises
\* nothing and the source is there: on the answer "Yes" the file is moved, the
\* target then holds the content of the source, and one success is counted;
\* without a conflict the file is moved and nobody is asked.
C13_ConsultedOnConflict ==
    [][/\ Iterated
          => /\ Consulted <=> ConflictOfCurrent
             /\ Consulted => Last(batch'.asked).i = batch.i
       /\ (/\ Iterated
           /\ files_to_rename[batch.i] \in DOMAIN fs_files
           /\ rename_step("Yes", "none"))
          => /\ Last(batch'.outcomes) = "moved"
             /\ batch'.success_count = batch.success_count + 1
             /\ batch'.error_files = batch.error_files
             /\ TargetOfCurrent \in DOMAIN fs_files'
             /\ fs_files'[TargetOfCurrent] = fs_files[files_to_rename[batch.i]]
             /\ files_to_rename[batch.i] # TargetOfCurrent
                   => files_to_rename[batch.i] \notin DOMAIN fs_files'
             /\ ConflictOfCurrent => Last(batch'.asked).response = "Yes"
             /\ ~ConflictOfCurrent => batch'.asked = batch.asked]_vars

\* the operator answered "Yes" and the file that was at the target is replaced
C13_Witness ==
    /\ pc \in {"loop", "summary"}
    /\ \E k \in DOMAIN batch.asked :
          /\ batch.asked[k].response = "Yes"
          /\ batch.outcomes[batch.asked[k].i] = "moved"
          /\ \E p \in PreTargets :
                /\ p \in DOMAIN batch.fs0
                /\ batch.fs0[p] = PreContent
                /\ fs_files[p] = files_to_rename[batch.asked[k].i]

\* rule k of the single-season cascade (section 4.1, rules 1 to 5): the
\* position where re.search finds it in s, 0 when it does not match
SingleRuleAt(k, s) ==
    FirstMatch({p \in 1..Len(s) :
        CASE k = 1 -> TwoNumAt(s, p, {"S", "s"}, {"E", "e"})
          [] k = 2 -> CrossAt(s, p)
          [] k = 3 -> InClass(s, p, {"E", "e"}) /\ IsDigit(s, p + 1)
          [] k = 4 -> WordNumDigit(s, p, {"E", "e"}, pisode) # 0
          [] k = 5 -> IsDigit(s, p)})

\* the episode that rule k captures at position p
SingleRuleEpisode(k, s, p) ==
    CASE k = 1 -> TwoNumG2(s, p)
      [] k = 2 -> CrossG2(s, p)
      [] k = 3 -> RunInt(s, p + 1)
      [] k = 4 -> RunInt(s, WordNumDigit(s, p, {"E", "e"}, pisode))
      [] k = 5 -> RunInt(s, p)

\* rule k of the auto-detect cascade (section 4.1, rules 1 to 6)
AutoRuleAt(k, s) ==
    FirstMatch({p \in 1..Len(s) :
        CASE k = 1 -> TwoNumAt(s, p, {"S", "s"}, {"E", "e"})
          [] k = 2 -> CrossAt(s, p)
          [] k = 3 -> TempAt(s, p, pisodio)
          [] k = 4 -> TempAt(s, p, <<"p">>)
          [] k = 5 -> TwoNumAt(s, p, {"T", "t"}, {"E", "e"})
          [] k = 6 -> DottedAt(s, p)})

\* the (season, episode) that rule k captures at position p
AutoRulePair(k, s, p) ==
    CASE k = 1 -> <<TwoNumG1(s, p), TwoNumG2(s, p)>>
      [] k = 2 -> <<CrossG1(s, p), CrossG2(s, p)>>
      [] k = 3 -> <<TempG1(s, p), TempG2(s, p, pisodio)>>
      [] k = 4 -> <<TempG1(s, p), TempG2(s, p, <<"p">>)>>
      [] k = 5 -> <<TwoNumG1(s, p), TwoNumG2(s, p)>>
      [] k = 6 -> <<DigitVal(s[p]), RunInt(s, p + 2)>>

SingleMatching(s) == {k \in 1..5 : SingleRuleAt(k, s) # 0}
AutoMatching(s) == {k \in 1..6 : AutoRuleAt(k, s) # 0}

\* Scenario A of the specification
Name_ScenarioA ==
    <<"S", "h", "o", "w", ".", "N", "a", "m", "e", ".",
      "S", "0", "2", "E", "0", "5", ".", "m", "k", "v">>
Title_ScenarioA == <<"S", "h", "o", "w", " ", "N", "a", "m", "e">>
Rendered_ScenarioA ==
    <<"S", "h", "o", "w", " ", "N", "a", "m", "e", " ",
      "S", "0", "2", "E", "0", "5", ".", "m", "k", "v">>

\* the episode of the earliest single-season rule that matches s
EarliestSingle(s) ==
    SingleRuleEpisode(Min(SingleMatching(s)), s,
                      SingleRuleAt(Min(SingleMatching(s)), s))

\* the pair of the earliest auto-detect rule that matches s
EarliestAuto(s) ==
    AutoRulePair(Min(AutoMatching(s)), s, AutoRuleAt(Min(AutoMatching(s)), s))

\* C14: a file whose name matches rules of the cascade of its mode gets the
\* values captured by the earliest of these rules.  In single-season mode
\* the pair is the season selected in the combo box and that episode, and the
\* name is rendered from them, whatever season the filename shows; in
\* auto-detect mode the parsed pair is that of the earliest rule, and it is
\* the pair of the file when the season is known.  Scenario A renders
\* "Show Name S02E05.mkv".
C14_FirstMatchWins ==
    /\ \A i \in DOMAIN new_filenames :
          /\ (~detect_all_seasons /\ SingleMatching(Basename(files_to_rename[i])) # {})
             => /\ preview_nums[i] =
                      <<season_combo_current, EarliestSingle(Basename(files_to_rename[i]))>>
                /\ new_filenames[i] =
                      FormatTv(config.tv_format, MediaName(current_media_info.id),
                               season_combo_current,
                               EarliestSingle(Basename(files_to_rename[i])),
                               DictGet(EpisodesDict(episodes_info),
                                       EarliestSingle(Basename(files_to_rename[i]))))
                         \o Dot \o Extension(Basename(files_to_rename[i]))
          /\ (detect_all_seasons /\ AutoMatching(Basename(files_to_rename[i])) # {})
             => /\ AutoParse(files_to_rename[i]) = EarliestAuto(Basename(files_to_rename[i]))
                /\ EarliestAuto(Basename(files_to_rename[i]))[1]
                      \in DOMAIN AllSeasonsDict(all_seasons_info)
                   => preview_nums[i] = EarliestAuto(Basename(files_to_rename[i]))
    /\ generate_tv_filename(Name_ScenarioA, Title_ScenarioA, 2, EmptyDict, 0)
          = [name |-> Rendered_ScenarioA, episode |-> 5]

\* single-season mode with season 2 selected: the name shows season 1 and
\* matches rules 1, 3 and 5, and the pair is (2, episode of rule 1)
C14_Witness ==
    /\ ~detect_all_seasons
    /\ season_combo_current = 2
    /\ Len(new_filenames) = 1
    /\ {1, 3, 5} \subseteq SingleMatching(Basename(files_to_rename[1]))
    /\ SingleRuleEpisode(5, Basename(files_to_rename[1]),
                         SingleRuleAt(5, Basename(files_to_rename[1]))) = 1
    /\ preview_nums[1] = <<2, 2>>

\* file i of the list has no pair and keeps its name
Unresolved(i) ==
    /\ preview_nums[i] = <<None, None>>
    /\ new_filenames[i] = Basename(files_to_rename[i])

\* file i of the list has this pair, when its season is a known season
ResolvedAs(i, pair) ==
    IF pair[1] \in DOMAIN AllSeasonsDict(all_seasons_info)
    THEN /\ preview_nums[i] = pair
         /\ new_filenames[i] # Basename(files_to_rename[i])
    ELSE Unresolved(i)

\* C15: in auto-detect mode a file whose name matches a rule of the cascade
\* gets the pair of that rule whatever its directory is called.  A file whose
\* name matches no rule gets the season of the season marker of its parent
\* directory and the episode of the bare episode number of its name; when the
\* directory has no marker or the name has no number the pair is (None, None)
\* and the file keeps its name.
C15_DirectoryFallback ==
    detect_all_seasons
        => \A i \in DOMAIN new_filenames :
              IF AutoMatching(Basename(files_to_rename[i])) # {}
              THEN ResolvedAs(i, EarliestAuto(Basename(files_to_rename[i])))
              ELSE IF \/ DirSeason(Basename(Dirname(files_to_rename[i]))) = None
                      \/ BareEpisode(Basename(files_to_rename[i])) = None
                   THEN Unresolved(i)
                   ELSE ResolvedAs(i, <<DirSeason(Basename(Dirname(files_to_rename[i]))),
                                        BareEpisode(Basename(files_to_rename[i]))>>)

\* no rule matches the name "E2.mkv"; the directory is "Season 2"
C15_Witness ==
    /\ detect_all_seasons
    /\ Len(new_filenames) = 1
    /\ AutoMatching(Basename(files_to_rename[1])) = {}
    /\ Basename(Dirname(files_to_rename[1])) = Dir_Season2
    /\ Basename(files_to_rename[1]) = Tok_E2 \o Ext_mkv
    /\ preview_nums[1] = <<2, 2>>

\* the first and the second run of digits of a rendered name, as strings
FirstRunAt(s, from) == FirstMatch({p \in from..Len(s) : IsDigit(s, p)})
ShownSeason(s) ==
    SubSeq(s, FirstRunAt(s, 1), RunEnd(s, FirstRunAt(s, 1)))
ShownEpisode(s) ==
    SubSeq(s, FirstRunAt(s, RunEnd(s, FirstRunAt(s, 1)) + 1),
           RunEnd(s, FirstRunAt(s, RunEnd(s, FirstRunAt(s, 1)) + 1)))

\* digits is n written with at least two digits, zero-padded and not truncated
PaddedTwo(digits, n) ==
    /\ Len(digits) >= 2
    /\ ToInt(digits, 1, Len(digits)) = n
    /\ Len(digits) > 2 => digits[1] # "0"

\* digits is n written without padding
Unpadded(digits, n) ==
    /\ Len(digits) >= 1
    /\ ToInt(digits, 1, Len(digits)) = n
    /\ Len(digits) > 1 => digits[1] # "0"

\* file i of the list was rendered from a season and an episode
RenderedTv(i) ==
    /\ selected_media_type = "tv"
    /\ preview_nums[i][1] # None
    /\ preview_nums[i][2] # None

\* C16 as stated: in every TV template the rendered name shows the season
\* and the episode zero-padded to at least two digits and not truncated.
C16_PaddedInEveryTemplate ==
    \A i \in DOMAIN new_filenames :
        RenderedTv(i)
        => /\ PaddedTwo(ShownSeason(new_filenames[i]), preview_nums[i][1])
           /\ PaddedTwo(ShownEpisode(new_filenames[i]), preview_nums[i][2])

\* C16 amended: in every TV template the rendered name shows the episode
\* zero-padded to at least two digits and not truncated; it shows the season
\* in the same way in the templates 0 and 1, and without padding in the
\* templates 2 ("{season}x{episode:02d}") and 3 ("Temporada {season}").
C16_PaddedWhereTemplatePads ==
    \A i \in DOMAIN new_filenames :
        RenderedTv(i)
        => /\ PaddedTwo(ShownEpisode(new_filenames[i]), preview_nums[i][2])
           /\ IF config.tv_format \in {0, 1}
              THEN PaddedTwo(ShownSeason(new_filenames[i]), preview_nums[i][1])
              ELSE Unpadded(ShownSeason(new_filenames[i]), preview_nums[i][1])

\* season 3, episode 100 under the basic template gives "L S03E100.mkv"
C16_Witness ==
    /\ config.tv_format = 0
    /\ Len(new_filenames) = 1
    /\ preview_nums[1] = <<3, 100>>
    /\ new_filenames[1] = Str_L \o <<" ", "S", "0", "3", "E", "1", "0", "0">> \o Ext_mkv

\* file i of the list is rendered in single-season mode and no rule of the
\* cascade matches its name
NoRuleMatches(i) ==
    /\ selected_media_type = "tv"
    /\ ~detect_all_seasons
    /\ SingleMatching(Basename(files_to_rename[i])) = {}

\* C17 as stated: in single-season mode a file whose name matches no rule has
\* the pair (None, None) and its original filename as rendered name.
C17_KeepsOriginalName ==
    \A i \in DOMAIN new_filenames :
        NoRuleMatches(i)
        => /\ preview_nums[i] = <<None, None>>
           /\ new_filenames[i] = Basename(files_to_rename[i])

\* template format_index of config["tv_formats"] with the token XX where the
\* episode goes, for a file without episode title
TemplateWithXX(format_index, title, season) ==
    CASE format_index = 0 -> title \o Fmt_S \o Pad2(season) \o Fmt_E \o <<"X", "X">>
      [] format_index = 1 -> title \o Fmt_S \o Pad2(season) \o Fmt_E \o <<"X", "X">> \o Sp
      [] format_index = 2 -> title \o Fmt_Dash \o IntToStr(season) \o Fmt_x \o <<"X", "X">>
      [] format_index = 3 -> title \o Fmt_Temporada \o IntToStr(season)
                                   \o Fmt_Episodio \o <<"X", "X">>

\* C18: a file rendered in single-season mode whose episode is unknown gets
\* the configured template with XX in the place of the episode, followed by
\* its extension.
C18_PlaceholderInConfiguredTemplate ==
    \A i \in DOMAIN new_filenames :
        (/\ selected_media_type = "tv"
         /\ ~detect_all_seasons
         /\ preview_nums[i][2] = None)
        => new_filenames[i] =
              TemplateWithXX(config.tv_format, MediaName(current_media_info.id),
                             season_combo_current)
                 \o Dot \o Extension(Basename(files_to_rename[i]))

FormatsAgree ==
    /\ \A k \in 0..3 : \A n \in RenderNumbers : \A m \in RenderNumbers :
          \A et \in {<<>>, Str_Pilot} :
             StrFormat(TvFormats[k + 1],
                       [title |-> StrArg(Str_L), season |-> IntArg(n),
                        episode |-> IntArg(m), episode_title |-> StrArg(et)])
                = Formatted(FormatTv(k, Str_L, n, m, et))
    /\ \A k \in 0..3 : \A y \in {<<>>, MediaYear(3)} :
          StrFormat(MovieFormats[k + 1],
                    [title |-> StrArg(Str_M), year |-> StrArg(y)])
             = Formatted(FormatMovie(k, Str_M, y))

\* the path lies under the directory
IsUnder(path, dir) ==
    Len(path) > Len(dir) /\ SubSeq(path, 1, Len(dir)) = dir

\* root of the claim: the override, else the parent of the first source file
RootOfBatch ==
    IF base_directory # <<>> THEN base_directory
    ELSE SubSeq(files_to_rename[1], 1, Len(files_to_rename[1]) - 1)

\* "{title} ({year})", the year segment omitted when the year is unknown
FolderNameOfBatch ==
    IF MediaYear(current_media_info.id) = <<>>
    THEN MediaName(current_media_info.id)
    ELSE MediaName(current_media_info.id) \o <<" ", "(">>
            \o MediaYear(current_media_info.id) \o <<")">>

\* MAIN of the claim
MainOfBatch ==
    IF \/ base_directory # <<>>
       \/ (selected_media_type = "movie" /\ config.organize_movies)
    THEN RootOfBatch \o <<FolderNameOfBatch>>
    ELSE RootOfBatch

\* C20: the MAIN directory of a batch is root/mainFolderName when a base
\* directory was chosen or when the type is movie and organize_movies is set,
\* and root otherwise; root is the base directory when chosen, else the
\* parent of the first file of the list; mainFolderName is the title and
\* " (year)", the year left out when it is unknown.  The batch keeps this one
\* MAIN, and every file it moves arrives under it.
C20_OneMainDirectory ==
    [][/\ (pc = "idle" /\ pc' # "idle")
          => batch'.main_folder_path = MainOfBatch
       /\ pc = "loop"
          => /\ batch.main_folder_path = MainOfBatch
             /\ batch'.main_folder_path = batch.main_folder_path
       /\ (/\ Iterated
           /\ Last(batch'.outcomes) = "moved"
           /\ files_to_rename[batch.i] \in DOMAIN fs_files)
          => \E p \in DOMAIN fs_files' :
                /\ IsUnder(p, MainOfBatch)
                /\ fs_files'[p] = fs_files[files_to_rename[batch.i]]
                /\ (p = files_to_rename[batch.i]
                    \/ files_to_rename[batch.i] \notin DOMAIN fs_files')]_vars

\* a file of a series without a year was moved under base/title, and it came
\* from a directory other than that of the first file
C20_Witness ==
    /\ pc = "loop"
    /\ base_directory # <<>>
    /\ MediaYear(current_media_info.id) = <<>>
    /\ batch.main_folder_path = base_directory \o <<MediaName(current_media_info.id)>>
    /\ \E k \in DOMAIN batch.outcomes :
          /\ batch.outcomes[k] = "moved"
          /\ Dirname(files_to_rename[k]) # Dirname(files_to_rename[1])

\* the positions of an S<digits>E<digits> token in a rendered name
TokenPositions(name) ==
    {p \in 1..Len(name) : TwoNumAt(name, p, {"S"}, {"E"})}

\* "Season NN" of the first token of a rendered name
SeasonFolderOf(name) ==
    <<"S", "e", "a", "s", "o", "n", " ">>
        \o Pad2(TwoNumG1(name, Min(TokenPositions(name))))

\* the target of the claim for file k of the batch
TargetOfClaim(k) ==
    IF /\ selected_media_type = "tv"
       /\ organize_seasons_checkbox
       /\ TokenPositions(new_filenames[k]) # {}
    THEN batch.main_folder_path
            \o <<SeasonFolderOf(new_filenames[k]), new_filenames[k]>>
    ELSE batch.main_folder_path \o <<new_filenames[k]>>

\* C21: for a series with organize-seasons set the target of a file is
\* MAIN/"Season NN"/rendered name exactly when the rendered name holds an
\* S<season>E<episode> token, NN being the season of that token on two
\* digits, whatever season the preview recorded for the file; in every other
\* case the target is MAIN/rendered name.  A file that is moved arrives at
\* that target, and the operator is asked exactly when that target exists
\* and is not the source.
C21_SeasonFolderFromRenderedName ==
    [][/\ (/\ Iterated
           /\ Last(batch'.outcomes) = "moved"
           /\ files_to_rename[batch.i] \in DOMAIN fs_files)
          => /\ TargetOfClaim(batch.i) \in DOMAIN fs_files'
             /\ fs_files'[TargetOfClaim(batch.i)] = fs_files[files_to_rename[batch.i]]
             /\ \A p \in DOMAIN fs_files' \ DOMAIN fs_files : p = TargetOfClaim(batch.i)
       /\ (Iterated /\ Last(batch'.outcomes) # "failed")
          => (Consulted <=> /\ Exists(TargetOfClaim(batch.i))
                            /\ TargetOfClaim(batch.i) # files_to_rename[batch.i])]_vars

\* a file kept its name S9E1.mkv because season 9 is unknown, the preview
\* recorded no season for it, and it was moved into "Season 09"
C21_Witness ==
    /\ pc = "loop"
    /\ organize_seasons_checkbox
    /\ \E k \in DOMAIN batch.outcomes :
          /\ batch.outcomes[k] = "moved"
          /\ preview_nums[k] = <<None, None>>
          /\ new_filenames[k] = Basename(File_3)
          /\ batch.main_folder_path
                \o <<Str_Season \o <<"0", "9">>, new_filenames[k]>> \in DOMAIN fs_files

\* the file the loop is at is at its source path, which is not its target
MovableCurrent ==
    /\ files_to_rename[batch.i] \in DOMAIN fs_files
    /\ files_to_rename[batch.i] # TargetOfCurrent

\* C22 (as stated): every move of the batch is a copy followed by the removal
\* of the original and never a rename, and a move whose rename would fail
\* succeeds.
C22_NeverRename ==
    [][/\ (Iterated /\ Last(batch'.outcomes) = "moved")
          => Last(batch'.moves).method = "copy_delete"
       /\ (rename_step("Yes", "rename") /\ MovableCurrent)
          => Last(batch'.outcomes) = "moved"]_vars

\* C22 (amended): every move of the batch first tries to rename the source to
\* the target, and is a copy followed by the removal of the original only
\* when that rename raised.  A move whose rename raises succeeds when the
\* copy and the removal raise nothing: the target holds the content of the
\* source and the source is gone, as after a move whose rename succeeded.
\* The original is removed only when the target holds its whole content.
C22_RenameFirstThenCopy ==
    [][/\ (Iterated /\ Last(batch'.outcomes) = "moved")
          => /\ Len(batch'.moves) = Len(batch.moves) + 1
             /\ Last(batch'.moves).method =
                   (IF Last(batch'.moves).rename_raised
                    THEN "copy_delete" ELSE "rename")
             /\ fs_files'[TargetOfCurrent] = fs_files[files_to_rename[batch.i]]
       /\ \A fault \in {"none", "rename"} :
             (rename_step("Yes", fault) /\ MovableCurrent)
             => /\ Last(batch'.outcomes) = "moved"
                /\ Last(batch'.moves).rename_raised = (fault = "rename")
                /\ fs_files'[TargetOfCurrent] = fs_files[files_to_rename[batch.i]]
                /\ files_to_rename[batch.i] \notin DOMAIN fs_files'
       /\ (Iterated /\ MovableCurrent
                    /\ files_to_rename[batch.i] \notin DOMAIN fs_files')
          => fs_files'[TargetOfCurrent] = fs_files[files_to_rename[batch.i]]]_vars

\* one batch moved a file by a rename and another file, whose rename raised,
\* by a copy and the removal of the original; both are at their targets
C22_Witness ==
    /\ pc = "loop"
    /\ Len(batch.moves) = 2
    /\ batch.moves[1].method # batch.moves[2].method
    /\ \E k \in DOMAIN batch.moves : batch.moves[k].rename_raised
    /\ \A i \in DOMAIN batch.outcomes :
          /\ batch.outcomes[i] = "moved"
          /\ files_to_rename[i] \notin DOMAIN fs_files
          /\ \E p \in DOMAIN fs_files : fs_files[p] = files_to_rename[i]

\* title(map, season, episode): the mapped title, empty when absent
TitleIn(map, season, episode) ==
    IF season \in DOMAIN map /\ episode \in DOMAIN map[season]
    THEN map[season][episode] ELSE <<>>

\* the map supplied to the rendering: all_seasons_info in auto-detect mode,
\* episodes_info for the selected season in single-season mode
SuppliedMap ==
    IF detect_all_seasons THEN AllSeasonsDict(all_seasons_info)
    ELSE (season_combo_current :> EpisodesDict(episodes_info))

Name_ScenarioB ==
    <<"1", "x", "0", "9", " ", "-", " ",
      "s", "o", "m", "e", "t", "h", "i", "n", "g", ".", "m", "p", "4">>
Pilot_ScenarioB == <<"P", "i", "l", "o", "t">>
Rendered_ScenarioB ==
    <<"S", "h", "o", "w", " ", "N", "a", "m", "e", " ", "S", "0", "1", "E", "0", "9",
      " ", "P", "i", "l", "o", "t", ".", "m", "p", "4">>

\* C23: the episode title of a rendered name is the title that the supplied
\* map holds for the season and the episode of the file, and the empty string
\* when the episode is not in the map, in which case the name is rendered all
\* the same; "1x09 - something.mp4" in auto-detect mode with the seasons
\* {1: {9: "Pilot"}} and the template with the episode title gives
\* "Show Name S01E09 Pilot.mp4".
C23_EpisodeTitleFromMap ==
    /\ \A i \in DOMAIN new_filenames :
          RenderedTv(i)
          => new_filenames[i] =
                FormatTv(config.tv_format, MediaName(current_media_info.id),
                         preview_nums[i][1], preview_nums[i][2],
                         TitleIn(SuppliedMap, preview_nums[i][1], preview_nums[i][2]))
                   \o <<".">> \o Extension(Basename(files_to_rename[i]))
    /\ generate_tv_filename_auto_season(<<Dir_d, Name_ScenarioB>>, Title_ScenarioA,
                                        (1 :> (9 :> Pilot_ScenarioB)), 1).name
          = Rendered_ScenarioB
    /\ generate_tv_filename_auto_season(<<Dir_d, Name_ScenarioB>>, Title_ScenarioA,
                                        (1 :> (8 :> Pilot_ScenarioB)), 1).name
          = SubSeq(Rendered_ScenarioB, 1, 17) \o <<".", "m", "p", "4">>

\* with the template with the episode title, a file of season 3 was rendered
\* in auto-detect mode with the title of its episode 7
C23_Witness ==
    /\ detect_all_seasons
    /\ config.tv_format = 1
    /\ Len(new_filenames) = 1
    /\ preview_nums[1] = <<3, 7>>
    /\ new_filenames[1] =
          Str_L \o <<" ", "S", "0", "3", "E", "0", "7", " ">> \o Str_Pilot
             \o <<".", "m", "k", "v">>

\* the directory of the target of the file the loop is at, and those above
DirsOfTarget == {SubSeq(TargetOfCurrent, 1, k) : k \in 1..(Len(TargetOfCurrent) - 1)}

\* C24: for a file that is not skipped every directory of its target path
\* that is missing has been created when the move is attempted: the
\* directories are there after an iteration whose move succeeded and after
\* one whose move raised, and when the filesystem raises nothing and the
\* source is there the file is moved, also into a directory that did not
\* exist before the iteration.
C24_DirectoriesBeforeMove ==
    [][/\ (Iterated /\ Last(batch'.outcomes) = "moved")
          => DirsOfTarget \subseteq fs_dirs'
       /\ \A fault \in {"move", "move_copied", "move_truncated", "move_partial"} :
             rename_step("Yes", fault) => DirsOfTarget \subseteq fs_dirs'
       /\ (/\ rename_step("Yes", "none")
           /\ files_to_rename[batch.i] \in DOMAIN fs_files)
          => /\ Last(batch'.outcomes) = "moved"
             /\ TargetOfCurrent \in DOMAIN fs_files']_vars

\* a file was moved into a season directory that did not exist when the
\* batch started
C24_Witness ==
    /\ pc = "loop"
    /\ \E k \in DOMAIN batch.outcomes :
          /\ batch.outcomes[k] = "moved"
          /\ \E p \in DOMAIN fs_files \ DOMAIN batch.fs0 :
                /\ fs_files[p] = files_to_rename[k]
                /\ Dirname(p) \notin InitDirs(PreTargets)
                /\ Dirname(p) # batch.main_folder_path

\* C25: whenever the rename button is enabled, new_filenames is the
\* rendering of files_to_rename under the media, the mode, the season and the
\* template that are selected now; between the selection of another series,
\* or a toggle of auto-detect, and the arrival of the metadata it asked for,
\* the button is not enabled over the names of the previous selection.
C25_CommitOnlyCurrentNames ==
    rename_button => new_filenames = PreviewOf(files_to_rename, Ui).names

\* the metadata that update_preview reads in the current mode holds nothing
\* of another series and, in single-season mode, nothing of another season
MetadataOfSelection ==
    IF detect_all_seasons
    THEN all_seasons_info.series \in {0, current_media_info.id}
    ELSE episodes_info \in {NoEpisodes,
                            [series |-> current_media_info.id,
                             season |-> season_combo_current]}

\* update_preview has rendered names of a series in this step
RendersTv ==
    /\ \/ \E f \in PreviewFiles : process_files(<<f>>)
       \/ deliver_signal
       \/ episodes_fetched
       \/ all_seasons_fetched
    /\ selected_media_type = "tv"
    /\ current_media_info # NoMedia
    /\ files_to_rename' # <<>>
    /\ detect_all_seasons \/ season_combo_count > 0

\* C26: whenever update_preview renders the names of a series, all_seasons_info
\* (in auto-detect mode) and episodes_info (in single-season mode, for the
\* selected season) were fetched for the series that is selected, and never
\* hold the data of a series or season selected before.
C26_MetadataOfCurrentSelection ==
    [][RendersTv => MetadataOfSelection']_vars

\* C27: in every state of the running program, when the rename button is
\* enabled a media is selected, the list of files is not empty and
\* new_filenames is as long as files_to_rename.
C27_ButtonImpliesReady ==
    (pc # "crashed" /\ rename_button)
    => /\ current_media_info # NoMedia
       /\ files_to_rename # <<>>
       /\ Len(new_filenames) = Len(files_to_rename)

\* the button is enabled over two rendered files of a selected series whose
\* episodes have arrived
C27_Witness ==
    /\ pc = "idle"
    /\ rename_button
    /\ Len(files_to_rename) = 2
    /\ Len(new_filenames) = 2
    /\ current_media_info # NoMedia
    /\ episodes_info # NoEpisodes

\* C28: when the summary of a run is closed no file that the run moved is
\* left in files_to_rename, so that a second run attempts only the files that
\* were skipped or failed; after a complete run files_to_rename and
\* new_filenames are empty and the rename button is disabled.
C28_MovedFilesLeaveTheList ==
    [][(pc = "summary" /\ pc' = "idle")
          => /\ \A k \in DOMAIN batch.outcomes :
                   batch.outcomes[k] = "moved"
                   => \A j \in DOMAIN files_to_rename' :
                         files_to_rename'[j] # files_to_rename[k]
             /\ batch.result = "complete"
                   => /\ files_to_rename' = <<>>
                      /\ new_filenames' = <<>>
                      /\ ~rename_button']_vars

\* a complete run empties the lists and disables the button
CompleteRunClears ==
    [][(pc = "summary" /\ pc' = "idle" /\ batch.result = "complete")
          => /\ files_to_rename' = <<>>
             /\ new_filenames' = <<>>
             /\ ~rename_button']_vars

\* C29: an iteration that skips its file on a conflict changes nothing in
\* the filesystem: no directory is created, and the source and the target
\* that exists keep their content.
C29_SkipChangesNothing ==
    [][(Iterated /\ Last(batch'.outcomes) = "skipped")
          => /\ fs_dirs' = fs_dirs
             /\ fs_files' = fs_files
             /\ files_to_rename[batch.i] \in DOMAIN fs_files
                   => files_to_rename[batch.i] \in DOMAIN fs_files'
             /\ TargetOfCurrent \in DOMAIN fs_files']_vars

\* a file whose target lies in a season folder was skipped
C29_Witness ==
    /\ pc = "loop"
    /\ batch.organize_seasons
    /\ \E k \in DOMAIN batch.outcomes :
          /\ batch.outcomes[k] = "skipped"
          /\ NewPath(batch.main_folder_path, new_filenames[k], TRUE)
                # batch.main_folder_path \o <<new_filenames[k]>>
          /\ NewPath(batch.main_folder_path, new_filenames[k], TRUE) \in DOMAIN fs_files

\* the target of file k of the batch
TargetOf(k) ==
    NewPath(batch.main_folder_path, new_filenames[k], batch.organize_seasons)

\* an earlier file of the batch was moved to the target of the file the loop
\* is at, from another source, and is still there
EarlierAtTarget ==
    \E j \in 1..(batch.i - 1) :
        /\ batch.outcomes[j] = "moved"
        /\ files_to_rename[j] # files_to_rename[batch.i]
        /\ TargetOf(j) = TargetOf(batch.i)
        /\ TargetOf(j) \in DOMAIN fs_files
        /\ fs_files[TargetOf(j)] = batch.fs0[files_to_rename[j]]

\* C30: when an earlier file of the batch was moved to the target of the
\* file the loop is at, the operator is asked about the conflict, and the
\* earlier file is replaced only when the answer is an overwrite (Yes or
\* YesToAll).
C30_EarlierFileNotReplaced ==
    [][(Iterated /\ EarlierAtTarget /\ Last(batch'.outcomes) # "failed")
          => /\ Consulted
             /\ fs_files'[TargetOf(batch.i)] # fs_files[TargetOf(batch.i)]
                   => Last(batch'.asked).response \in {"Yes", "YesToAll"}]_vars

\* the later file is put to the operator, and only the answer No keeps the
\* earlier file
LaterFileIsConflict ==
    [][(Iterated /\ EarlierAtTarget /\ Last(batch'.outcomes) # "failed")
          => /\ Consulted
             /\ fs_files'[TargetOf(batch.i)] # fs_files[TargetOf(batch.i)]
                   => Last(batch'.asked).response # "No"]_vars

====
